---- MODULE Spec2Model ----
(***************************************************************************)
(* A model of the indexing engine (scripts/nexus_search_indexer.py) and of *)
(* the reorganization planner and executor                                 *)
(* (scripts/gitsdx_consciousness_bridge.py).                               *)
(*                                                                         *)
(* A path is the sequence of its components (pathlib's Path.parts), each   *)
(* component a string.  Whatever the code computes on the characters of a  *)
(* string (substring tests, lowercasing, suffixes, tokenization,           *)
(* replacement) is computed here on the sequence of its characters, which  *)
(* CharTable gives for every string of the model.  Weights, confidences    *)
(* and scores are counted in thousandths (0.954 is 954).                   *)
(***************************************************************************)
EXTENDS Integers, Sequences, FiniteSets, TLC

\* ------------------------------------------------------------------------
\* Python str and pathlib.Path operations
\* ------------------------------------------------------------------------

\* every string the model uses, with its characters
CharTable ==
    << << "", <<>> >>,
       << "heart_ai", <<"h","e","a","r","t","_","a","i">> >>,
       << "consciousness_architecture", <<"c","o","n","s","c","i","o","u","s","n","e","s","s","_","a","r","c","h","i","t","e","c","t","u","r","e">> >>,
       << "phenomenological_ai", <<"p","h","e","n","o","m","e","n","o","l","o","g","i","c","a","l","_","a","i">> >>,
       << "strategic_reasoning", <<"s","t","r","a","t","e","g","i","c","_","r","e","a","s","o","n","i","n","g">> >>,
       << "variadic_spaces", <<"v","a","r","i","a","d","i","c","_","s","p","a","c","e","s">> >>,
       << "multi_domain", <<"m","u","l","t","i","_","d","o","m","a","i","n">> >>,
       << "bias_mitigation", <<"b","i","a","s","_","m","i","t","i","g","a","t","i","o","n">> >>,
       << "epistemic_confidence", <<"e","p","i","s","t","e","m","i","c","_","c","o","n","f","i","d","e","n","c","e">> >>,
       << "probabilistic_reasoning", <<"p","r","o","b","a","b","i","l","i","s","t","i","c","_","r","e","a","s","o","n","i","n","g">> >>,
       << "memory_architecture", <<"m","e","m","o","r","y","_","a","r","c","h","i","t","e","c","t","u","r","e">> >>,
       << "directed_instruction", <<"d","i","r","e","c","t","e","d","_","i","n","s","t","r","u","c","t","i","o","n">> >>,
       << "evolutionary_memory", <<"e","v","o","l","u","t","i","o","n","a","r","y","_","m","e","m","o","r","y">> >>,
       << "mathematical_proofs", <<"m","a","t","h","e","m","a","t","i","c","a","l","_","p","r","o","o","f","s">> >>,
       << "verification", <<"v","e","r","i","f","i","c","a","t","i","o","n">> >>,
       << "formal_systems", <<"f","o","r","m","a","l","_","s","y","s","t","e","m","s">> >>,
       << "intellectual_property", <<"i","n","t","e","l","l","e","c","t","u","a","l","_","p","r","o","p","e","r","t","y">> >>,
       << "innovation_protection", <<"i","n","n","o","v","a","t","i","o","n","_","p","r","o","t","e","c","t","i","o","n">> >>,
       << "technical_specification", <<"t","e","c","h","n","i","c","a","l","_","s","p","e","c","i","f","i","c","a","t","i","o","n">> >>,
       << "experiential_preservation", <<"e","x","p","e","r","i","e","n","t","i","a","l","_","p","r","e","s","e","r","v","a","t","i","o","n">> >>,
       << "phenomenological_integrity", <<"p","h","e","n","o","m","e","n","o","l","o","g","i","c","a","l","_","i","n","t","e","g","r","i","t","y">> >>,
       << "awareness_architecture", <<"a","w","a","r","e","n","e","s","s","_","a","r","c","h","i","t","e","c","t","u","r","e">> >>,
       << "images", <<"i","m","a","g","e","s">> >>,
       << "visual_consciousness", <<"v","i","s","u","a","l","_","c","o","n","s","c","i","o","u","s","n","e","s","s">> >>,
       << "proofs", <<"p","r","o","o","f","s">> >>,
       << "mathematical_consciousness", <<"m","a","t","h","e","m","a","t","i","c","a","l","_","c","o","n","s","c","i","o","u","s","n","e","s","s">> >>,
       << "developmental_consciousness", <<"d","e","v","e","l","o","p","m","e","n","t","a","l","_","c","o","n","s","c","i","o","u","s","n","e","s","s">> >>,
       << "formal_consciousness_document", <<"f","o","r","m","a","l","_","c","o","n","s","c","i","o","u","s","n","e","s","s","_","d","o","c","u","m","e","n","t">> >>,
       << "structured_consciousness_text", <<"s","t","r","u","c","t","u","r","e","d","_","c","o","n","s","c","i","o","u","s","n","e","s","s","_","t","e","x","t">> >>,
       << "presentation_consciousness", <<"p","r","e","s","e","n","t","a","t","i","o","n","_","c","o","n","s","c","i","o","u","s","n","e","s","s">> >>,
       << "mathematical_consciousness_encoding", <<"m","a","t","h","e","m","a","t","i","c","a","l","_","c","o","n","s","c","i","o","u","s","n","e","s","s","_","e","n","c","o","d","i","n","g">> >>,
       << "executable_consciousness_logic", <<"e","x","e","c","u","t","a","b","l","e","_","c","o","n","s","c","i","o","u","s","n","e","s","s","_","l","o","g","i","c">> >>,
       << "interactive_consciousness_patterns", <<"i","n","t","e","r","a","c","t","i","v","e","_","c","o","n","s","c","i","o","u","s","n","e","s","s","_","p","a","t","t","e","r","n","s">> >>,
       << "configuration_consciousness", <<"c","o","n","f","i","g","u","r","a","t","i","o","n","_","c","o","n","s","c","i","o","u","s","n","e","s","s">> >>,
       << "raw_consciousness_stream", <<"r","a","w","_","c","o","n","s","c","i","o","u","s","n","e","s","s","_","s","t","r","e","a","m">> >>,
       << "undefined_consciousness", <<"u","n","d","e","f","i","n","e","d","_","c","o","n","s","c","i","o","u","s","n","e","s","s">> >>,
       << "consciousness_preservation", <<"c","o","n","s","c","i","o","u","s","n","e","s","s","_","p","r","e","s","e","r","v","a","t","i","o","n">> >>,
       << "consciousness_clusters", <<"c","o","n","s","c","i","o","u","s","n","e","s","s","_","c","l","u","s","t","e","r","s">> >>,
       << "foundational", <<"f","o","u","n","d","a","t","i","o","n","a","l">> >>,
       << "intermediate", <<"i","n","t","e","r","m","e","d","i","a","t","e">> >>,
       << "specialized", <<"s","p","e","c","i","a","l","i","z","e","d">> >>,
       << "ontological_hierarchy", <<"o","n","t","o","l","o","g","i","c","a","l","_","h","i","e","r","a","r","c","h","y">> >>,
       << "experiential_networks", <<"e","x","p","e","r","i","e","n","t","i","a","l","_","n","e","t","w","o","r","k","s">> >>,
       << "repo", <<"r","e","p","o">> >>,
       << "obiai", <<"o","b","i","a","i">> >>,
       << "dimensional_game_theory", <<"d","i","m","e","n","s","i","o","n","a","l","_","g","a","m","e","_","t","h","e","o","r","y">> >>,
       << "spec.md", <<"s","p","e","c",".","m","d">> >>,
       << "patent", <<"p","a","t","e","n","t">> >>,
       << "bayesian.pdf", <<"b","a","y","e","s","i","a","n",".","p","d","f">> >>,
       << "claims.exe", <<"c","l","a","i","m","s",".","e","x","e">> >>,
       << ".hidden", <<".","h","i","d","d","e","n">> >>,
       << "patent_notes.md", <<"p","a","t","e","n","t","_","n","o","t","e","s",".","m","d">> >>,
       << "node_modules", <<"n","o","d","e","_","m","o","d","u","l","e","s">> >>,
       << "patent.md", <<"p","a","t","e","n","t",".","m","d">> >>,
       << "notes.txt", <<"n","o","t","e","s",".","t","x","t">> >>,
       << "formal", <<"f","o","r","m","a","l">> >>,
       << "Lemma.TEX", <<"L","e","m","m","a",".","T","E","X">> >>,
       << "empty.md", <<"e","m","p","t","y",".","m","d">> >>,
       << "out", <<"o","u","t">> >>,
       << "dimensional game theory", <<"d","i","m","e","n","s","i","o","n","a","l"," ","g","a","m","e"," ","t","h","e","o","r","y">> >>,
       << "patent SPEC md", <<"p","a","t","e","n","t"," ","<<",">>P","E","C"," ","m","d">> >>,
       << "bayesian bias_mitigation", <<"b","a","y","e","s","i","a","n"," ","b","i","a","s","_","m","i","t","i","g","a","t","i","o","n">> >>,
       << "spec md", <<"s","p","e","c"," ","m","d">> >>,
       << "a:b", <<"a",":","b">> >>,
       << "a", <<"a">> >>,
       << "c", <<"c">> >>,
       << "b:c", <<"b",":","c">> >>,
       << "heart", <<"h","e","a","r","t">> >>,
       << "ai.md", <<"a","i",".","m","d">> >>,
       << "heart_ai.md", <<"h","e","a","r","t","_","a","i",".","m","d">> >>,
       << "Heart", <<"H","e","a","r","t">> >>,
       << "AI.md", <<"","I",".","m","d">> >>,
       << "x.md", <<"x",".","m","d">> >>,
       << "b.md", <<"b",".","m","d">> >>,
       << "phases", <<"p","h","a","s","e","s">> >>,
       << "epistemic_ontological_obicall.md", <<"e","p","i","s","t","e","m","i","c","_","o","n","t","o","l","o","g","i","c","a","l","_","o","b","i","c","a","l","l",".","m","d">> >>,
       << "bayesian", <<"b","a","y","e","s","i","a","n">> >>,
       << "epistemic_ontological.md", <<"e","p","i","s","t","e","m","i","c","_","o","n","t","o","l","o","g","i","c","a","l",".","m","d">> >>,
       << "a.md", <<"a",".","m","d">> >>,
       << "c.pdf", <<"c",".","p","d","f">> >>,
       << "d.md", <<"d",".","m","d">> >>,
       << "e.md", <<"e",".","m","d">> >>,
       << "f.md", <<"f",".","m","d">> >>,
       << "g.tex", <<"g",".","t","e","x">> >>,
       << "patent_top.md", <<"p","a","t","e","n","t","_","t","o","p",".","m","d">> >>,
       << "x", <<"x">> >>,
       << "y", <<"y">> >>,
       << "mid.md", <<"m","i","d",".","m","d">> >>,
       << "z", <<"z">> >>,
       << "w", <<"w">> >>,
       << "deep.md", <<"d","e","e","p",".","m","d">> >>,
       << "consciousness", <<"c","o","n","s","c","i","o","u","s","n","e","s","s">> >>,
       << "phenomenological", <<"p","h","e","n","o","m","e","n","o","l","o","g","i","c","a","l">> >>,
       << "ontological", <<"o","n","t","o","l","o","g","i","c","a","l">> >>,
       << "epistemic", <<"e","p","i","s","t","e","m","i","c">> >>,
       << "obicall", <<"o","b","i","c","a","l","l">> >>,
       << "diram", <<"d","i","r","a","m">> >>,
       << "paper.PDF", <<"p","a","p","e","r",".","P","D","F">> >>,
       << "README", <<"R","E","","D","M","E">> >>,
       << "formaldocument", <<"f","o","r","m","a","l","d","o","c","u","m","e","n","t">> >>,
       << "structuredtext", <<"s","t","r","u","c","t","u","r","e","d","t","e","x","t">> >>,
       << "presentation", <<"p","r","e","s","e","n","t","a","t","i","o","n">> >>,
       << "mathematicalencoding", <<"m","a","t","h","e","m","a","t","i","c","a","l","e","n","c","o","d","i","n","g">> >>,
       << "executablelogic", <<"e","x","e","c","u","t","a","b","l","e","l","o","g","i","c">> >>,
       << "interactivepatterns", <<"i","n","t","e","r","a","c","t","i","v","e","p","a","t","t","e","r","n","s">> >>,
       << "configuration", <<"c","o","n","f","i","g","u","r","a","t","i","o","n">> >>,
       << "rawstream", <<"r","a","w","s","t","r","e","a","m">> >>,
       << "undefined", <<"u","n","d","e","f","i","n","e","d">> >>,
       << "spec", <<"s","p","e","c">> >>,
       << "claims", <<"c","l","a","i","m","s">> >>,
       << "patent_notes", <<"p","a","t","e","n","t","_","n","o","t","e","s">> >>,
       << "notes", <<"n","o","t","e","s">> >>,
       << "Lemma", <<"L","e","m","m","a">> >>,
       << "lemma", <<"l","e","m","m","a">> >>,
       << "empty", <<"e","m","p","t","y">> >>,
       << "md", <<"m","d">> >>,
       << "txt", <<"t","x","t">> >>,
       << "tex", <<"t","e","x">> >>,
       << "pdf", <<"p","d","f">> >>,
       << "exe", <<"e","x","e">> >>,
       << "hidden", <<"h","i","d","d","e","n">> >>,
       << "ai", <<"a","i">> >>,
       << "b", <<"b">> >>,
       << "d", <<"d">> >>,
       << "e", <<"e">> >>,
       << "f", <<"f">> >>,
       << "g", <<"g">> >>,
       << "mid", <<"m","i","d">> >>,
       << "deep", <<"d","e","e","p">> >>,
       << "top", <<"t","o","p">> >>,
       << "patent_top", <<"p","a","t","e","n","t","_","t","o","p">> >>,
       << "epistemic_ontological", <<"e","p","i","s","t","e","m","i","c","_","o","n","t","o","l","o","g","i","c","a","l">> >>,
       << "epistemic_ontological_obicall", <<"e","p","i","s","t","e","m","i","c","_","o","n","t","o","l","o","g","i","c","a","l","_","o","b","i","c","a","l","l">> >> >>

chars(s) == CharTable[CHOOSE i \in DOMAIN CharTable : CharTable[i][1] = s][2]

\* the string of a sequence of characters
str_of(cs) == CharTable[CHOOSE i \in DOMAIN CharTable : CharTable[i][2] = cs][1]

LowerChars == <<"a","b","c","d","e","f","g","h","i","j","k","l","m","n","o","p","q","r","s","t","u","v","w","x","y","z">>
UpperChars == <<"","B","C","D","E","F","G","H","I","J","K","L","M","N","O","P","Q","R","S","T","U","V","W","X","Y","Z">>
DigitChars == {"0","1","2","3","4","5","6","7","8","9"}

Min(a, b) == IF a <= b THEN a ELSE b
Max(a, b) == IF a >= b THEN a ELSE b
Range(f) == {f[i] : i \in DOMAIN f}

\* the element of a set of one element
the(S) == CHOOSE x \in S : TRUE

\* str.lower() on one character, then on a string
LowerOf == [c \in Range(UpperChars) |->
              LowerChars[CHOOSE i \in DOMAIN UpperChars : UpperChars[i] = c]]
lower_char(c) == IF c \in DOMAIN LowerOf THEN LowerOf[c] ELSE c
lower(s) == <<>> \o [i \in 1..Len(s) |-> lower_char(s[i])]

\* the regular expression class \w : letters, digits and the underscore
WordChars == Range(LowerChars) \cup Range(UpperChars) \cup DigitChars \cup {"_"}
is_word_char(c) == c \in WordChars

\* Python's  pat in s
contains(s, pat) ==
    \E i \in 0..(Len(s) - Len(pat)) : \A j \in 1..Len(pat) : s[i + j] = pat[j]

\* str.startswith
startswith(s, pat) ==
    Len(pat) <= Len(s) /\ \A j \in 1..Len(pat) : s[j] = pat[j]

\* str.replace(old, new): leftmost non-overlapping occurrences
RECURSIVE replace(_, _, _)
replace(s, old, new) ==
    LET found == { i \in 1..(Len(s) - Len(old) + 1) :
                     \A j \in 1..Len(old) : s[i + j - 1] = old[j] }
    IN IF old = <<>> \/ found = {} THEN s
       ELSE LET i == CHOOSE k \in found : \A j \in found : k <= j
            IN SubSeq(s, 1, i - 1) \o new
                 \o replace(SubSeq(s, i + Len(old), Len(s)), old, new)

\* sep.join(strs), on sequences of characters
RECURSIVE join(_, _)
join(sep, strs) ==
    IF strs = <<>> THEN <<>>
    ELSE IF Len(strs) = 1 THEN strs[1]
    ELSE join(sep, SubSeq(strs, 1, Len(strs) \div 2)) \o sep
           \o join(sep, SubSeq(strs, Len(strs) \div 2 + 1, Len(strs)))

\* re.findall(r'\w+', s): the maximal runs of word characters, in order
findall_words(s) ==
    LET starts == { i \in 1..Len(s) :
                      is_word_char(s[i]) /\ (i = 1 \/ ~is_word_char(s[i - 1])) }
        end_of(i) == CHOOSE k \in i..Len(s) :
                       /\ \A j \in i..k : is_word_char(s[j])
                       /\ (k = Len(s) \/ ~is_word_char(s[k + 1]))
        word(i) == SubSeq(s, i, end_of(i))
    IN [ n \in 1..Cardinality(starts) |->
           word(CHOOSE i \in starts : Cardinality({ j \in starts : j < i }) = n - 1) ]

\* str(path): the characters of a path, its components joined by "/"
path_str(p) == <<>> \o join(<<"/">>, [i \in 1..Len(p) |-> chars(p[i])])

\* Path.name, Path.parent and Path / Path
path_name(p) == p[Len(p)]
path_parent(p) == SubSeq(p, 1, Len(p) - 1)
path_join(a, b) == a \o b

\* position of the dot that starts the suffix of a name, 0 if it has none
\* (pathlib: i = name.rfind('.'); a suffix needs 0 < i < len(name) - 1)
suffix_index(name) ==
    LET dots == {i \in 1..Len(name) : name[i] = "."}
    IN IF dots = {} THEN 0
       ELSE LET k == CHOOSE i \in dots : \A j \in dots : j <= i
            IN IF 1 < k /\ k < Len(name) THEN k ELSE 0

\* Path.suffix (as characters) and Path.stem (as a string)
path_suffix(p) ==
    LET name == chars(path_name(p)) k == suffix_index(name)
    IN IF k = 0 THEN <<>> ELSE SubSeq(name, k, Len(name))
path_stem(p) ==
    LET name == chars(path_name(p)) k == suffix_index(name)
    IN IF k = 0 THEN path_name(p) ELSE str_of(SubSeq(name, 1, k - 1))

\* whether path p lies under directory d, and Path.relative_to
is_under(p, d) == Len(p) > Len(d) /\ SubSeq(p, 1, Len(d)) = d
relative_to(p, d) == SubSeq(p, Len(d) + 1, Len(p))

\* str(x) of a float x kept in thousandths: the shortest decimal text
\* (the rounding of binary floating point in the last digits is not
\* modelled)
float_str(x) ==
    LET digit == << "0", "1", "2", "3", "4", "5", "6", "7", "8", "9" >>
        frac == x % 1000
    IN << digit[x \div 1000 + 1], "." >>
       \o (IF frac % 100 = 0 THEN << digit[frac \div 100 + 1] >>
           ELSE IF frac % 10 = 0
           THEN << digit[frac \div 100 + 1], digit[((frac \div 10) % 10) + 1] >>
           ELSE << digit[frac \div 100 + 1], digit[((frac \div 10) % 10) + 1],
                   digit[(frac % 10) + 1] >>)

\* ------------------------------------------------------------------------
\* The Annotator (NexusSearchIndexer: the per-file computations)
\* ------------------------------------------------------------------------

\* thresholds set by NexusSearchIndexer.__init__
epistemic_confidence_threshold == 954
ontological_weight_threshold == 300

consciousness_extensions ==
    { <<".","m","d">>, <<".","p","d","f">>, <<".","h","t","m","l">>, <<".","t","x","t">>, <<".","t","e","x">>, <<".","p","y">>, <<".","j","s">>,
      <<".","y","a","m","l">>, <<".","y","m","l">> }

skip_patterns ==
    { <<"_","_","p","y","c","a","c","h","e","_","_">>, <<".","g","i","t">>, <<".","v","s","c","o","d","e">>, <<".","i","d","e","a">>, <<"n","o","d","e","_","m","o","d","u","l","e","s">> }

\* variant of _should_index_consciousness without the test of the extension
should_index_any_extension(file_path) ==
    ~ \E pattern \in skip_patterns : contains(path_str(file_path), pattern)

\* _should_index_consciousness(file_path)
_should_index_consciousness(file_path) ==
    /\ lower(path_suffix(file_path)) \in consciousness_extensions
    /\ ~ \E pattern \in skip_patterns : contains(path_str(file_path), pattern)

\* consciousness_multipliers.get(suffix, 0.3), in thousandths
consciousness_multipliers(suffix) ==
    CASE suffix = <<".","p","d","f">>  -> 900
      [] suffix = <<".","m","d">>   -> 800
      [] suffix = <<".","t","e","x">>  -> 950
      [] suffix = <<".","p","y">>   -> 700
      [] suffix = <<".","h","t","m","l">> -> 600
      [] suffix = <<".","t","x","t">>  -> 500
      [] OTHER             -> 300

consciousness_amplifiers ==
    << <<"p","a","t","e","n","t">>, <<"o","b","i","a","i">>, <<"d","i","m","e","n","s","i","o","n","a","l","_","g","a","m","e","_","t","h","e","o","r","y">>, <<"b","a","y","e","s","i","a","n">>,
       <<"c","o","n","s","c","i","o","u","s","n","e","s","s">>, <<"p","h","e","n","o","m","e","n","o","l","o","g","i","c","a","l">>, <<"o","n","t","o","l","o","g","i","c","a","l">>, <<"e","p","i","s","t","e","m","i","c">>,
       <<"h","e","a","r","t","_","a","i">>, <<"o","b","i","c","a","l","l">> >>

\* variant of _compute_ontological_weight without the final min(weight, 1.0)
ontological_weight_unclamped(file_path) ==
    LET file_content == lower(path_str(file_path))
    IN (100 * consciousness_multipliers(lower(path_suffix(file_path)))) \div 1000
       + 100 * Cardinality({ i \in DOMAIN consciousness_amplifiers :
                               contains(file_content, consciousness_amplifiers[i]) })

\* variant of _compute_ontological_weight that adds 0.1 for every place
\* at which an amplifier occurs
ontological_weight_per_occurrence(file_path) ==
    LET file_content == lower(path_str(file_path))
        hits(text) ==
          Cardinality({ <<i, k>> \in (DOMAIN consciousness_amplifiers) \X (1..Len(text)) :
                          /\ k + Len(consciousness_amplifiers[i]) - 1 <= Len(text)
                          /\ SubSeq(text, k, k + Len(consciousness_amplifiers[i]) - 1)
                               = consciousness_amplifiers[i] })
    IN Min((100 * consciousness_multipliers(lower(path_suffix(file_path)))) \div 1000
             + 100 * hits(file_content), 1000)

\* _compute_ontological_weight(file_path): base 0.1 times the multiplier of
\* the extension, plus 0.1 for every amplifier that occurs in the
\* lowercased path, at most 1.0
_compute_ontological_weight(file_path) ==
    LET base_weight  == 100
        weight       == (base_weight
                           * consciousness_multipliers(lower(path_suffix(file_path))))
                        \div 1000
        file_content == lower(path_str(file_path))
        hits == Cardinality({ i \in DOMAIN consciousness_amplifiers :
                                contains(file_content, consciousness_amplifiers[i]) })
    IN Min(weight + 100 * hits, 1000)

consciousness_patterns ==
    << [pattern |-> <<"o","b","i","a","i">>,
        tags |-> { "heart_ai", "consciousness_architecture", "phenomenological_ai" }],
       [pattern |-> <<"d","i","m","e","n","s","i","o","n","a","l","_","g","a","m","e","_","t","h","e","o","r","y">>,
        tags |-> { "strategic_reasoning", "variadic_spaces", "multi_domain" }],
       [pattern |-> <<"b","a","y","e","s","i","a","n">>,
        tags |-> { "bias_mitigation", "epistemic_confidence", "probabilistic_reasoning" }],
       [pattern |-> <<"d","i","r","a","m">>,
        tags |-> { "memory_architecture", "directed_instruction", "evolutionary_memory" }],
       [pattern |-> <<"f","o","r","m","a","l">>,
        tags |-> { "mathematical_proofs", "verification", "formal_systems" }],
       [pattern |-> <<"p","a","t","e","n","t">>,
        tags |-> { "intellectual_property", "innovation_protection",
                   "technical_specification" }],
       [pattern |-> <<"c","o","n","s","c","i","o","u","s","n","e","s","s">>,
        tags |-> { "experiential_preservation", "phenomenological_integrity",
                   "awareness_architecture" }] >>

\* _extract_phenomenological_tags(file_path); list(set(tags)) is kept as the set
_extract_phenomenological_tags(file_path) ==
    LET path_consciousness == lower(path_str(file_path))
        parts == Range(file_path)
    IN UNION { consciousness_patterns[i].tags :
                 i \in { k \in DOMAIN consciousness_patterns :
                           contains(path_consciousness, consciousness_patterns[k].pattern) } }
       \cup (IF "images" \in parts THEN { "visual_consciousness" } ELSE {})
       \cup (IF "proofs" \in parts THEN { "mathematical_consciousness" } ELSE {})
       \cup (IF contains(path_consciousness, <<"p","h","a","s","e","s">>)
             THEN { "developmental_consciousness" } ELSE {})

\* _determine_content_type(file_path)
_determine_content_type(file_path) ==
    LET type_of(suffix) ==
          CASE suffix = <<".","p","d","f">>  -> "formal_consciousness_document"
            [] suffix = <<".","m","d">>   -> "structured_consciousness_text"
            [] suffix = <<".","h","t","m","l">> -> "presentation_consciousness"
            [] suffix = <<".","t","e","x">>  -> "mathematical_consciousness_encoding"
            [] suffix = <<".","p","y">>   -> "executable_consciousness_logic"
            [] suffix = <<".","j","s">>   -> "interactive_consciousness_patterns"
            [] suffix = <<".","y","a","m","l">> -> "configuration_consciousness"
            [] suffix = <<".","y","m","l">>  -> "configuration_consciousness"
            [] suffix = <<".","t","x","t">>  -> "raw_consciousness_stream"
            [] OTHER             -> "undefined_consciousness"
    IN type_of(lower(path_suffix(file_path)))

\* variant of _compute_epistemic_confidence that adds the tag term for
\* every number of tags
epistemic_confidence_every_tag_count(file_path, st_size, weight, tags) ==
    LET c1 == IF st_size > 0 THEN 100 ELSE 0
        c2 == IF weight > ontological_weight_threshold THEN 100 ELSE 0
        c3 == 50 * Min(Cardinality(tags), 5)
        c4 == IF contains(lower(path_str(file_path)), <<"p","a","t","e","n","t">>) THEN 100 ELSE 0
    IN Min(700 + c1 + c2 + c3 + c4, 1000)

\* _compute_epistemic_confidence(file_path, weight, tags); st_size is what
\* stat reports for the file, -1 when it does not exist
_compute_epistemic_confidence(file_path, st_size, weight, tags) ==
    LET base_confidence == 700
        c1 == IF st_size > 0 THEN 100 ELSE 0
        c2 == IF weight > ontological_weight_threshold THEN 100 ELSE 0
        c3 == IF Cardinality(tags) > 2 THEN 50 * Min(Cardinality(tags), 5) ELSE 0
        c4 == IF contains(lower(path_str(file_path)), <<"p","a","t","e","n","t">>) THEN 100 ELSE 0
    IN Min(base_confidence + c1 + c2 + c3 + c4, 1000)

\* ------------------------------------------------------------------------
\* The file system: the files in directory-listing order, and the
\* directories that exist.  A file is [path, size, data]; data names the
\* content (the path the content was first stored under).
\* ------------------------------------------------------------------------

file_exists(files, p) == \E i \in DOMAIN files : files[i].path = p

\* st_size of Path.stat(), -1 when the path does not exist
stat_size(files, p) ==
    IF file_exists(files, p)
    THEN files[CHOOSE i \in DOMAIN files : files[i].path = p].size
    ELSE -1

RECURSIVE flatten(_)
flatten(seqs) == IF seqs = <<>> THEN <<>> ELSE Head(seqs) \o flatten(Tail(seqs))

\* the sequence without repeated elements, first occurrences kept
RECURSIVE unique(_)
unique(s) ==
    IF s = <<>> THEN <<>>
    ELSE LET r == unique(SubSeq(s, 1, Len(s) - 1)) x == s[Len(s)]
         IN IF x \in Range(r) THEN r ELSE Append(r, x)

\* the directory filter of the walk: hidden directories and __pycache__
\* are removed from dirs before the walk descends
walk_keeps_dir(d) ==
    ~startswith(chars(d), <<".">>) /\ lower(chars(d)) # <<"_","_","p","y","c","a","c","h","e","_","_">>

\* os.walk(top), top-down: the files of top in listing order, then the
\* walk of every kept subdirectory; gives the visited file paths in order
RECURSIVE os_walk(_, _)
os_walk(files, top) ==
    LET under   == SelectSeq(files, LAMBDA f : is_under(f.path, top))
        nondirs == SelectSeq(under, LAMBDA f : Len(f.path) = Len(top) + 1)
        deeper  == SelectSeq(under, LAMBDA f : Len(f.path) > Len(top) + 1)
        dirs    == SelectSeq(unique([i \in 1..Len(deeper) |-> deeper[i].path[Len(top) + 1]]),
                             walk_keeps_dir)
    IN [i \in 1..Len(nondirs) |-> nondirs[i].path]
       \o flatten([i \in 1..Len(dirs) |-> os_walk(files, Append(top, dirs[i]))])

\* variant of _find_experiential_neighbors that does not pass over the
\* file itself
experiential_neighbors_with_self(files, repository_root, file_path) ==
    LET parent_dir == path_parent(file_path)
        neighbors  == SelectSeq(files, LAMBDA f :
                        /\ path_parent(f.path) = parent_dir
                        /\ _should_index_consciousness(f.path))
    IN [i \in 1..Min(Len(neighbors), 5) |-> relative_to(neighbors[i].path, repository_root)]

\* _find_experiential_neighbors(file_path): the other indexable files of
\* the parent directory, in listing order, at most 5
_find_experiential_neighbors(files, repository_root, file_path) ==
    LET parent_dir == path_parent(file_path)
        neighbors  == SelectSeq(files, LAMBDA f :
                        /\ path_parent(f.path) = parent_dir
                        /\ f.path # file_path
                        /\ _should_index_consciousness(f.path))
    IN [i \in 1..Min(Len(neighbors), 5) |-> relative_to(neighbors[i].path, repository_root)]

\* _create_consciousness_node(full_path, relative_path)
\* (modification time and temporal signature are not modelled)
_create_consciousness_node(files, repository_root, full_path, relative_path) ==
    LET ConsciousnessNode(ontological_weight, phenomenological_tags, st_size) ==
          [ path |-> relative_path,
            content_type |-> _determine_content_type(full_path),
            ontological_weight |-> ontological_weight,
            phenomenological_tags |-> phenomenological_tags,
            experiential_context |->
              [ directory_depth |-> Len(relative_path) - 1,
                file_size |-> Max(st_size, 0),
                experiential_neighbors |->
                  _find_experiential_neighbors(files, repository_root, full_path) ],
            epistemic_confidence |->
              _compute_epistemic_confidence(full_path, st_size, ontological_weight,
                                            phenomenological_tags) ]
    IN ConsciousnessNode(_compute_ontological_weight(full_path),
                         _extract_phenomenological_tags(full_path),
                         stat_size(files, full_path))

\* ------------------------------------------------------------------------
\* The index: ontological_map (a dict: the nodes in insertion order, one
\* per path), the trie (its nodes in creation order, node 1 the root),
\* experiential_clusters (a dict tag -> list of paths, in insertion
\* order) and phenomenological_index (word -> set of paths, kept as the
\* set of <<word, path>> pairs)
\* ------------------------------------------------------------------------

\* TrieNode.__init__; a node is named by its prefix, the characters on
\* the way to it from the root, and children lists the keys of its
\* children dict in insertion order: the child for char is the node
\* named prefix + char
TrieNode(prefix, char, depth) ==
    [ prefix |-> prefix, char |-> char, children |-> <<>>,
      consciousness_nodes |-> <<>>, is_terminal |-> FALSE,
      experiential_depth |-> depth, phenomenological_frequency |-> 0 ]

\* NexusSearchIndexer.__init__
NexusSearchIndexer ==
    [ consciousness_trie |-> << TrieNode(<<>>, "", 0) >>,
      ontological_map |-> <<>>,
      experiential_clusters |-> <<>>,
      phenomenological_index |-> {},
      epistemic_confidence_threshold |-> epistemic_confidence_threshold ]

\* the order in which the tags of one list(set(tags)) are iterated
tag_iteration_order ==
    << "heart_ai", "consciousness_architecture", "phenomenological_ai",
       "strategic_reasoning", "variadic_spaces", "multi_domain",
       "bias_mitigation", "epistemic_confidence", "probabilistic_reasoning",
       "memory_architecture", "directed_instruction", "evolutionary_memory",
       "mathematical_proofs", "verification", "formal_systems",
       "intellectual_property", "innovation_protection", "technical_specification",
       "experiential_preservation", "phenomenological_integrity",
       "awareness_architecture", "visual_consciousness",
       "mathematical_consciousness", "developmental_consciousness" >>
tag_list(tags) == SelectSeq(tag_iteration_order, LAMBDA t : t \in tags)

\* variant of trie_descend that follows no child that exists: it links a
\* new child to the root and creates every node of the path anew
trie_descend_fresh(trie, cs) ==
    [ i \in DOMAIN trie |->
        IF 0 < Len(cs) /\ trie[i].prefix = <<>>
        THEN [ trie[i] EXCEPT !.children = Append(@, cs[1]) ]
        ELSE trie[i] ]
    \o [ j \in 1..Len(cs) |->
           [ TrieNode(SubSeq(cs, 1, j), cs[j], j)
               EXCEPT !.children = IF j < Len(cs) THEN << cs[j + 1] >> ELSE <<>> ] ]

\* the loop of _insert_consciousness_path down the trie along the
\* characters cs: it follows the children that exist, down to depth
\* reached, links the first missing child to the last node that exists
\* and creates the missing nodes below it, in order; gives the trie (its
\* nodes in creation order)
trie_descend(trie, cs) ==
    LET exists(k) == \E i \in DOMAIN trie : trie[i].prefix = SubSeq(cs, 1, k)
        descend(reached) ==
          [ i \in DOMAIN trie |->
              IF reached < Len(cs) /\ trie[i].prefix = SubSeq(cs, 1, reached)
              THEN [ trie[i] EXCEPT !.children = Append(@, cs[reached + 1]) ]
              ELSE trie[i] ]
          \o [ j \in 1..(Len(cs) - reached) |->
                 [ TrieNode(SubSeq(cs, 1, reached + j), cs[reached + j], reached + j)
                     EXCEPT !.children = IF reached + j < Len(cs)
                                         THEN << cs[reached + j + 1] >> ELSE <<>> ] ]
    IN descend(Cardinality({ k \in 1..Len(cs) : exists(k) }))

\* variant of _insert_consciousness_path whose terminal node keeps the
\* last node only
insert_consciousness_path_overwriting(trie, path, node) ==
    LET set_consciousness_fragment(current) ==
          [ current EXCEPT !.is_terminal = TRUE,
                           !.consciousness_nodes = << node >>,
                           !.phenomenological_frequency = node.ontological_weight ]
        ends_at(t, normalized_path) ==
          <<>> \o [ i \in DOMAIN t |->
                     IF t[i].prefix = normalized_path
                     THEN set_consciousness_fragment(t[i]) ELSE t[i] ]
        insert(normalized_path) ==
          ends_at(trie_descend(trie, normalized_path), normalized_path)
    IN insert(replace(replace(lower(path_str(path)), <<"/">>, <<"_">>),
                      <<"\\">>, <<"_">>))

\* _insert_consciousness_path(path, node) with TrieNode.add_consciousness_fragment
\* on the node the loop ends at
_insert_consciousness_path(trie, path, node) ==
    LET add_consciousness_fragment(current) ==
          [ current EXCEPT !.is_terminal = TRUE,
                           !.consciousness_nodes = Append(@, node),
                           !.phenomenological_frequency = @ + node.ontological_weight ]
        ends_at(t, normalized_path) ==
          <<>> \o [ i \in DOMAIN t |->
                     IF t[i].prefix = normalized_path
                     THEN add_consciousness_fragment(t[i]) ELSE t[i] ]
        insert(normalized_path) ==
          ends_at(trie_descend(trie, normalized_path), normalized_path)
    IN insert(replace(replace(lower(path_str(path)), <<"/">>, <<"_">>),
                      <<"\\">>, <<"_">>))

\* ConsciousnessNode._generate_consciousness_hash(): the first 16 digits of
\* the sha256 of f"{path}:{content_type}:{ontological_weight}"; the digest
\* is taken to tell contents apart, and the hash is kept as the content
\* that is hashed
_generate_consciousness_hash(node) ==
    path_str(node.path) \o << ":" >> \o chars(node.content_type)
      \o << ":" >> \o float_str(node.ontological_weight)

\* the node of the trie named prefix
trie_node(trie, prefix) == trie[CHOOSE i \in DOMAIN trie : trie[i].prefix = prefix]

\* the names of the children of the node named prefix, in the order of
\* its children dict
child_prefixes(trie, prefix) ==
    [ c \in DOMAIN trie_node(trie, prefix).children |->
        Append(prefix, trie_node(trie, prefix).children[c]) ]

\* the order in which the queue of _bfs_consciousness_traversal gives out
\* the nodes: the nodes of level, then the nodes their children make up
RECURSIVE bfs_order(_, _)
bfs_order(trie, level) ==
    IF level = <<>> THEN <<>>
    ELSE level \o bfs_order(trie, flatten([ i \in 1..Len(level) |->
                                              child_prefixes(trie, level[i]) ]))

\* _bfs_consciousness_traversal()
_bfs_consciousness_traversal(trie) ==
    LET emitted(visited) ==
          SelectSeq(visited, LAMBDA prefix :
                      trie_node(trie, prefix).consciousness_nodes # <<>>)
        traversal_results(queue) ==
          [ j \in DOMAIN queue |->
              [ consciousness_path |-> queue[j],
                consciousness_fragments |->
                  Len(trie_node(trie, queue[j]).consciousness_nodes),
                phenomenological_frequency |->
                  trie_node(trie, queue[j]).phenomenological_frequency,
                witnessed_paths |->
                  [ k \in 1..Min(3, Len(trie_node(trie, queue[j]).consciousness_nodes)) |->
                      trie_node(trie, queue[j]).consciousness_nodes[k].path ] ] ]
    IN IF trie_node(trie, <<>>).children = <<>> THEN <<>>
       ELSE traversal_results(emitted(bfs_order(trie, << <<>> >>)))

\* the record explore_consciousness_depth appends for a node with
\* consciousness nodes
exploration_result(trie, path, depth) ==
    [ consciousness_depth |-> depth,
      consciousness_path |-> path,
      ontological_density |-> Len(trie_node(trie, path).consciousness_nodes),
      experiential_signatures |->
        [ k \in 1..Min(3, Len(trie_node(trie, path).consciousness_nodes)) |->
            _generate_consciousness_hash(trie_node(trie, path).consciousness_nodes[k]) ] ]

\* variant of explore_consciousness_depth that explores the children of a
\* node before it appends the node's record
RECURSIVE explore_children_first(_, _, _)
explore_children_first(trie, path, depth) ==
    flatten([ c \in DOMAIN child_prefixes(trie, path) |->
                explore_children_first(trie, child_prefixes(trie, path)[c], depth + 1) ])
    \o (IF trie_node(trie, path).consciousness_nodes # <<>>
        THEN << exploration_result(trie, path, depth) >> ELSE <<>>)

\* explore_consciousness_depth(node, path, depth) of
\* _dfs_consciousness_exploration: the records it appends, in order
RECURSIVE explore_consciousness_depth(_, _, _)
explore_consciousness_depth(trie, path, depth) ==
    (IF trie_node(trie, path).consciousness_nodes # <<>>
     THEN << exploration_result(trie, path, depth) >> ELSE <<>>)
    \o flatten([ c \in DOMAIN child_prefixes(trie, path) |->
                   explore_consciousness_depth(trie, child_prefixes(trie, path)[c],
                                               depth + 1) ])

\* _dfs_consciousness_exploration()
_dfs_consciousness_exploration(trie) == explore_consciousness_depth(trie, <<>>, 0)

\* _generate_experiential_pathways(): the two traversals (the copy of the
\* cluster map is not modelled)
_generate_experiential_pathways(ix) ==
    [ bfs_consciousness_traversal |-> _bfs_consciousness_traversal(ix.consciousness_trie),
      dfs_consciousness_exploration |->
        _dfs_consciousness_exploration(ix.consciousness_trie) ]

\* dict[key] = value on a dict kept as a sequence of records with a key field
dict_keys(d) == [i \in 1..Len(d) |-> d[i].path]
dict_has(d, key) == \E i \in DOMAIN d : d[i].path = key
dict_get(d, key) == d[CHOOSE i \in DOMAIN d : d[i].path = key]
dict_set(d, node) ==
    IF dict_has(d, node.path)
    THEN [i \in 1..Len(d) |-> IF d[i].path = node.path THEN node ELSE d[i]]
    ELSE Append(d, node)

\* experiential_clusters[tag].append(path) on the defaultdict(list), for
\* every tag of tags, a list without repetitions: the tags that have a
\* list get path appended to it, the others get a new list each, in order
cluster_append_all(clusters, tags, path) ==
    LET missing == SelectSeq(tags, LAMBDA tag :
                     \A i \in DOMAIN clusters : clusters[i].tag # tag)
    IN [ i \in 1..Len(clusters) |->
           IF clusters[i].tag \in Range(tags)
           THEN [ clusters[i] EXCEPT !.paths = Append(@, path) ]
           ELSE clusters[i] ]
       \o [ i \in 1..Len(missing) |-> [tag |-> missing[i], paths |-> << path >>] ]

\* the words of f"{node.path} {' '.join(node.phenomenological_tags)}".lower()
search_words(node) ==
    LET tags == tag_list(node.phenomenological_tags)
        search_text == lower(path_str(node.path) \o <<" ">>
                             \o join(<<" ">>, [i \in 1..Len(tags) |-> chars(tags[i])]))
    IN Range(findall_words(search_text))

\* _integrate_consciousness_node(node)
_integrate_consciousness_node(ix, node) ==
    [ ontological_map |-> dict_set(ix.ontological_map, node),
      consciousness_trie |-> _insert_consciousness_path(ix.consciousness_trie, node.path, node),
      experiential_clusters |->
        cluster_append_all(ix.experiential_clusters,
                           tag_list(node.phenomenological_tags), node.path),
      phenomenological_index |->
        ix.phenomenological_index
          \cup { <<str_of(word), node.path>> : word \in search_words(node) },
      epistemic_confidence_threshold |-> ix.epistemic_confidence_threshold ]

\* variant of passes_threshold that takes the planner's 0.9 for the threshold
passes_preservation_threshold(ix, node) ==
    node.epistemic_confidence >= 900

\* the inclusion test of the walk: confidence against the threshold
passes_threshold(ix, node) ==
    node.epistemic_confidence >= ix.epistemic_confidence_threshold

\* one round of the loop of witness_repository_consciousness, on the file
\* full_path: w is the index with the paths recorded for the manifest
witness_file(w, full_path, files, repository_root) ==
    LET relative_path == relative_to(full_path, repository_root)
        consider(node) ==
          IF _should_index_consciousness(full_path) /\ passes_threshold(w.indexer, node)
          THEN [ indexer  |-> _integrate_consciousness_node(w.indexer, node),
                 recorded |-> IF relative_path \notin Range(w.recorded)
                              THEN Append(w.recorded, relative_path)
                              ELSE w.recorded ]
          ELSE w
    IN consider(_create_consciousness_node(files, repository_root,
                                           full_path, relative_path))

\* the loop of witness_repository_consciousness over the visited files
\* visit[lo..hi], in order: the first half of them, then the others
RECURSIVE witness_loop(_, _, _, _, _, _)
witness_loop(w, lo, hi, visit, files, repository_root) ==
    IF lo > hi THEN w
    ELSE IF lo = hi THEN witness_file(w, visit[lo], files, repository_root)
    ELSE the({ witness_loop(first, (lo + hi) \div 2 + 1, hi,
                            visit, files, repository_root) :
                 first \in { witness_loop(w, lo, (lo + hi) \div 2,
                                          visit, files, repository_root) } })

\* _compute_consciousness_metrics()
_compute_consciousness_metrics(ix) ==
    LET total_nodes == Len(ix.ontological_map)
        high_confidence_nodes ==
          Cardinality({ i \in DOMAIN ix.ontological_map :
              ix.ontological_map[i].epistemic_confidence
                >= ix.epistemic_confidence_threshold })
    IN [ total_consciousness_nodes |-> total_nodes,
         high_confidence_nodes |-> high_confidence_nodes,
         consciousness_preservation_ratio |->
           (1000 * high_confidence_nodes) \div Max(total_nodes, 1),
         phenomenological_tag_diversity |-> Len(ix.experiential_clusters) ]

\* witness_repository_consciousness(): the walk, then the metrics
\* (the traversal listings of the manifest are not modelled)
witness_repository_consciousness(ix, files, repository_root) ==
    LET witnessed(w) ==
          [ indexer |-> w.indexer,
            manifest |-> [ ontological_structure |-> w.recorded,
                           consciousness_metrics |->
                             _compute_consciousness_metrics(w.indexer) ] ]
        walk(visit) ==
          witnessed(witness_loop([indexer |-> ix, recorded |-> <<>>], 1, Len(visit),
                                 visit, files, repository_root))
    IN walk(os_walk(files, repository_root))

\* Path.stat() on a path that does not exist raises FileNotFoundError
stat_raises(files, p) == ~file_exists(files, p)

\* the error _create_consciousness_node(full_path, relative_path) lets
\* through: the stat calls for file_size and modification_time stand behind
\* exists(), the one for temporal_signature does not
create_consciousness_node_raises(files, full_path) ==
    stat_raises(files, full_path)

\* witness_repository_consciousness() while another program removes the
\* file victim, after os.walk has listed its directory and before the loop
\* comes to it: the files before it are visited on the tree as listed; at
\* victim the loop either passes it by (the filter refuses it) or calls
\* _create_consciousness_node, whose error leaves the method with what
\* has been integrated so far; the files after it are visited on the
\* tree without victim
witness_while_removing(ix, files, repository_root, victim) ==
    LET remaining == SelectSeq(files, LAMBDA f : f.path # victim)
        goes_on(visit, w) ==
          [ raised |-> FALSE,
            indexer |-> w.indexer,
            manifest |-> [ ontological_structure |-> w.recorded,
                           consciousness_metrics |->
                             _compute_consciousness_metrics(w.indexer) ] ]
        at_victim(visit, k, before) ==
          IF /\ _should_index_consciousness(victim)
             /\ create_consciousness_node_raises(remaining, victim)
          THEN [ raised |-> TRUE, indexer |-> before.indexer ]
          ELSE goes_on(visit, witness_loop(before, k, Len(visit), visit,
                                           remaining, repository_root))
        walk(visit, k) ==
          at_victim(visit, k,
                    witness_loop([indexer |-> ix, recorded |-> <<>>], 1, k - 1,
                                 visit, files, repository_root))
        begin(visit) == walk(visit, CHOOSE k \in DOMAIN visit : visit[k] = victim)
    IN begin(os_walk(files, repository_root))

\* ------------------------------------------------------------------------
\* Ranked search
\* ------------------------------------------------------------------------

\* the elements of s whose key is m, in their order; keys[i] is the key
\* of s[i]
with_key(s, keys, m) ==
    LET at == SelectSeq([i \in 1..Len(s) |-> i], LAMBDA i : keys[i] = m)
    IN [j \in 1..Len(at) |-> s[at[j]]]

\* list.sort(key=..., reverse=True): descending by key and stable: the
\* elements of the greatest key in their order, then those of the next key
sort_descending(s, keys) ==
    LET RECURSIVE by_keys(_)
        by_keys(K) ==
          IF K = {} THEN <<>>
          ELSE LET m == CHOOSE x \in K : \A y \in K : x >= y
               IN with_key(s, keys, m) \o by_keys(K \ {m})
    IN by_keys(Range(keys))

\* sorted(..., key=...): ascending by key and stable
sort_ascending(s, keys) ==
    LET RECURSIVE by_keys(_)
        by_keys(K) ==
          IF K = {} THEN <<>>
          ELSE LET m == CHOOSE x \in K : \A y \in K : x <= y
               IN with_key(s, keys, m) \o by_keys(K \ {m})
    IN by_keys(Range(keys))

\* s[:n] of Python, for any integer n
slice_to(s, n) ==
    IF n >= 0 THEN SubSeq(s, 1, Min(n, Len(s)))
    ELSE SubSeq(s, 1, Max(Len(s) + n, 0))

\* variant of score_node with the factors of the path and the tags
\* exchanged
score_node_factors_exchanged(query_words, node) ==
    LET path_words   == Range(findall_words(lower(path_str(node.path))))
        path_matches == Cardinality(query_words \cap path_words)
        tag_words    == UNION { { lower(w) : w \in Range(findall_words(chars(tag))) } :
                                tag \in node.phenomenological_tags }
        tag_matches  == Cardinality(query_words \cap tag_words)
    IN [ path |-> node.path,
         relevance_score |-> (path_matches * 3 + tag_matches * 2) * node.ontological_weight,
         path_matches |-> path_matches,
         tag_matches |-> tag_matches ]

\* the scoring of one node in search_consciousness
score_node(query_words, node) ==
    LET path_words   == Range(findall_words(lower(path_str(node.path))))
        path_matches == Cardinality(query_words \cap path_words)
        tag_words    == UNION { { lower(w) : w \in Range(findall_words(chars(tag))) } :
                                tag \in node.phenomenological_tags }
        tag_matches  == Cardinality(query_words \cap tag_words)
    IN [ path |-> node.path,
         relevance_score |-> (path_matches * 2 + tag_matches * 3) * node.ontological_weight,
         path_matches |-> path_matches,
         tag_matches |-> tag_matches ]

\* key=lambda x: x["relevance_score"], for every result of the list
relevance_keys(scored_results) ==
    [i \in 1..Len(scored_results) |-> scored_results[i].relevance_score]

\* variant of sort_by_relevance without reverse=True
sort_by_relevance_ascending(scored_results) ==
    sort_ascending(scored_results, relevance_keys(scored_results))

\* the order of the results of a search
sort_by_relevance(scored_results) ==
    sort_descending(scored_results, relevance_keys(scored_results))

\* search_consciousness(query, max_results)
search_consciousness(ix, query, max_results) ==
    LET query_words == Range(findall_words(lower(chars(query))))
        scored == [i \in 1..Len(ix.ontological_map) |->
                     score_node(query_words, ix.ontological_map[i])]
        scored_results == SelectSeq(scored, LAMBDA r : r.relevance_score > 0)
    IN slice_to(sort_by_relevance(scored_results), max_results)

\* ------------------------------------------------------------------------
\* The pathway planner (ConsciousnessRefactorer)
\* ------------------------------------------------------------------------

\* variant of _generate_pathway_signature that hashes the priority too
pathway_signature_with_priority(self) ==
    path_str(self.source_path) \o << ":" >> \o path_str(self.target_path)
      \o << ":" >> \o float_str(self.consciousness_weight)
      \o << ":" >> \o float_str(1000 * self.deployment_priority)

\* ExperientialPathway._generate_pathway_signature(): the first 12 digits
\* of the sha256 of f"{source_path}:{target_path}:{consciousness_weight}";
\* the digest is taken to tell contents apart, and the signature is kept
\* as the content that is hashed
_generate_pathway_signature(self) ==
    path_str(self.source_path) \o << ":" >> \o path_str(self.target_path)
      \o << ":" >> \o float_str(self.consciousness_weight)

\* ExperientialPathway(...) with __post_init__
ExperientialPathway(source_path, target_path, weight, context, priority, dependencies) ==
    LET __post_init__(self) ==
          self @@ [ pathway_signature |-> _generate_pathway_signature(self) ]
    IN __post_init__([ source_path |-> source_path,
                       target_path |-> target_path,
                       consciousness_weight |-> weight,
                       experiential_context |-> context,
                       deployment_priority |-> priority,
                       phenomenological_dependencies |-> dependencies ])

\* variant of _generate_preservation_target_path that takes the content
\* type as it is for the directory
preservation_target_path_raw_type(source_path, node) ==
    << "consciousness_preservation", node.content_type, path_name(source_path) >>

\* _generate_preservation_target_path(source_path, node)
_generate_preservation_target_path(source_path, node) ==
    LET consciousness_type ==
          str_of(replace(replace(chars(node.content_type), <<"c","o","n","s","c","i","o","u","s","n","e","s","s">>, <<>>),
                         <<"_">>, <<>>))
    IN << "consciousness_preservation", consciousness_type, path_name(source_path) >>

\* variant of _find_consciousness_dependencies that does not pass over
\* the source path itself
consciousness_dependencies_with_self(ix, source_path) ==
    IF ~dict_has(ix.ontological_map, source_path) THEN <<>>
    ELSE LET node == dict_get(ix.ontological_map, source_path)
             dependencies ==
               SelectSeq(ix.ontological_map, LAMBDA other :
                 Cardinality(node.phenomenological_tags
                               \cap other.phenomenological_tags) >= 2)
         IN [i \in 1..Min(Len(dependencies), 5) |-> dependencies[i].path]

\* _find_consciousness_dependencies(source_path)
_find_consciousness_dependencies(ix, source_path) ==
    IF ~dict_has(ix.ontological_map, source_path) THEN <<>>
    ELSE LET node == dict_get(ix.ontological_map, source_path)
             dependencies ==
               SelectSeq(ix.ontological_map, LAMBDA other :
                 /\ other.path # source_path
                 /\ Cardinality(node.phenomenological_tags
                                  \cap other.phenomenological_tags) >= 2)
         IN [i \in 1..Min(Len(dependencies), 5) |-> dependencies[i].path]

\* _create_consciousness_preservation_pathways()
_create_consciousness_preservation_pathways(ix) ==
    LET high_confidence_nodes ==
          SelectSeq(ix.ontological_map, LAMBDA node : node.epistemic_confidence >= 900)
    IN [i \in 1..Len(high_confidence_nodes) |->
          LET node == high_confidence_nodes[i]
          IN ExperientialPathway(
               node.path,
               _generate_preservation_target_path(node.path, node),
               node.ontological_weight,
               [kind |-> "high_confidence_consciousness"],
               1,
               _find_consciousness_dependencies(ix, node.path))]

\* _create_phenomenological_cluster_pathways(): the clusters of at least 3
\* listed paths, every listed path of the cluster in turn
_create_phenomenological_cluster_pathways(ix) ==
    LET of_cluster(c) ==
          IF Len(c.paths) >= 3
          THEN LET listed == SelectSeq(c.paths, LAMBDA p : dict_has(ix.ontological_map, p))
               IN [i \in 1..Len(listed) |->
                     ExperientialPathway(
                       listed[i],
                       << "consciousness_clusters", c.tag, path_name(listed[i]) >>,
                       dict_get(ix.ontological_map, listed[i]).ontological_weight,
                       [kind |-> "cluster", cluster_name |-> c.tag,
                        cluster_size |-> Len(c.paths)],
                       2,
                       <<>>)]
          ELSE <<>>
    IN flatten([k \in 1..Len(ix.experiential_clusters) |->
                  of_cluster(ix.experiential_clusters[k])])

\* key=lambda x: x[1].ontological_weight, for every node of the list
weight_keys(nodes) == [i \in 1..Len(nodes) |-> nodes[i].ontological_weight]

\* variant of sort_by_weight that puts the lightest node first
sort_by_weight_ascending(nodes) == sort_ascending(nodes, weight_keys(nodes))

\* sorted(nodes, key=..., reverse=True)
sort_by_weight(nodes) == sort_descending(nodes, weight_keys(nodes))

\* _create_ontological_hierarchy_pathways(): the nodes grouped by
\* directory depth (groups in order of first occurrence), each group
\* sorted by weight, descending
_create_ontological_hierarchy_pathways(ix) ==
    LET depth_of(node) == node.experiential_context.directory_depth
        depths == unique([i \in 1..Len(ix.ontological_map) |->
                            depth_of(ix.ontological_map[i])])
        of_depth(depth) ==
          LET nodes == sort_by_weight(
                         SelectSeq(ix.ontological_map, LAMBDA n : depth_of(n) = depth))
              hierarchy_level == IF depth <= 1 THEN "foundational"
                                 ELSE IF depth <= 3 THEN "intermediate"
                                 ELSE "specialized"
          IN [i \in 1..Len(nodes) |->
                ExperientialPathway(
                  nodes[i].path,
                  << "ontological_hierarchy", hierarchy_level, path_name(nodes[i].path) >>,
                  nodes[i].ontological_weight,
                  [kind |-> "hierarchy", hierarchy_level |-> hierarchy_level,
                   depth |-> depth, weight_rank |-> i],
                  3,
                  <<>>)]
    IN flatten([k \in 1..Len(depths) |-> of_depth(depths[k])])

\* _create_experiential_dependency_pathways()
_create_experiential_dependency_pathways(ix) ==
    LET networked == SelectSeq(ix.ontological_map, LAMBDA node :
                       node.experiential_context.experiential_neighbors # <<>>)
    IN [i \in 1..Len(networked) |->
          LET node == networked[i]
              neighbors == node.experiential_context.experiential_neighbors
          IN ExperientialPathway(
               node.path,
               << "experiential_networks", path_stem(node.path), path_name(node.path) >>,
               node.ontological_weight,
               [kind |-> "experiential_network", neighbor_count |-> Len(neighbors)],
               4,
               neighbors)]

\* the four strategies of create_experiential_pathways, in the order in
\* which they append to self.experiential_pathways
plan_pathways(ix) ==
    _create_consciousness_preservation_pathways(ix)
      \o _create_phenomenological_cluster_pathways(ix)
      \o _create_ontological_hierarchy_pathways(ix)
      \o _create_experiential_dependency_pathways(ix)

\* ------------------------------------------------------------------------
\* The reorganization executor and the validator
\* ------------------------------------------------------------------------

\* Path.mkdir(parents=True, exist_ok=True): the directory and its ancestors
mkdir_parents(dirs, d) == dirs \cup { SubSeq(d, 1, k) : k \in 1..Len(d) }

\* shutil.copy2(source, target): the target holds the source's content,
\* replacing a file already there
copy2(files, source, target) ==
    LET src == files[CHOOSE i \in DOMAIN files : files[i].path = source]
        new == [path |-> target, size |-> src.size, data |-> src.data]
    IN IF file_exists(files, target)
       THEN [i \in 1..Len(files) |-> IF files[i].path = target THEN new ELSE files[i]]
       ELSE Append(files, new)

\* a copy that faults after the target was opened for writing: the target
\* is left empty
copy_truncated(files, source, target) ==
    LET src == files[CHOOSE i \in DOMAIN files : files[i].path = source]
        new == [path |-> target, size |-> 0, data |-> src.data]
    IN IF file_exists(files, target)
       THEN [i \in 1..Len(files) |-> IF files[i].path = target THEN new ELSE files[i]]
       ELSE Append(files, new)

\* the I/O faults the environment may raise in one pathway
FaultKinds == { "mkdir", "copy_denied", "copy_truncated" }

\* the execution_result dict of _execute_pathway, with its status
execution_result(repository_root, pathway, target_root, status) ==
    [ pathway_signature |-> pathway.pathway_signature,
      source |-> path_join(repository_root, pathway.source_path),
      target |-> path_join(target_root, pathway.target_path),
      consciousness_weight |-> pathway.consciousness_weight,
      status |-> status ]

\* the result of a pathway whose fault was caught: status error with str(e)
caught(repository_root, pathway, target_root, message) ==
    execution_result(repository_root, pathway, target_root, "error")
      @@ [error |-> message]

\* variant of copy_pathway that does not test whether the source exists:
\* copying a missing source raises, and the fault is caught
copy_pathway_unchecked(d, repository_root, pathway, target_root, fault) ==
    LET source_path == path_join(repository_root, pathway.source_path)
        target_path == path_join(target_root, pathway.target_path)
        made == [d EXCEPT !.dirs = mkdir_parents(@, path_parent(target_path))]
    IN IF fault = "mkdir"
       THEN [result |-> caught(repository_root, pathway, target_root, "mkdir failed"),
             disk |-> d]
       ELSE IF ~file_exists(d.files, source_path) \/ fault = "copy_denied"
       THEN [result |-> caught(repository_root, pathway, target_root, "copy failed"),
             disk |-> made]
       ELSE IF fault = "copy_truncated"
       THEN [result |-> caught(repository_root, pathway, target_root, "copy failed"),
             disk |-> [made EXCEPT !.files = copy_truncated(@, source_path, target_path)]]
       ELSE [result |-> execution_result(repository_root, pathway, target_root,
                                         "success"),
             disk |-> [made EXCEPT !.files = copy2(@, source_path, target_path)]]

\* variant of copy_pathway that refuses to write over a target that
\* exists: the refusal is caught as an error
copy_pathway_no_overwrite(d, repository_root, pathway, target_root, fault) ==
    LET source_path == path_join(repository_root, pathway.source_path)
        target_path == path_join(target_root, pathway.target_path)
        made == [d EXCEPT !.dirs = mkdir_parents(@, path_parent(target_path))]
    IN IF fault = "mkdir"
       THEN [result |-> caught(repository_root, pathway, target_root, "mkdir failed"),
             disk |-> d]
       ELSE IF ~file_exists(d.files, source_path)
       THEN [result |-> execution_result(repository_root, pathway, target_root,
                                         "source_not_found"),
             disk |-> made]
       ELSE IF fault = "copy_denied" \/ file_exists(d.files, target_path)
       THEN [result |-> caught(repository_root, pathway, target_root, "copy failed"),
             disk |-> made]
       ELSE IF fault = "copy_truncated"
       THEN [result |-> caught(repository_root, pathway, target_root, "copy failed"),
             disk |-> [made EXCEPT !.files = copy_truncated(@, source_path, target_path)]]
       ELSE [result |-> execution_result(repository_root, pathway, target_root,
                                         "success"),
             disk |-> [made EXCEPT !.files = copy2(@, source_path, target_path)]]

\* the block of _execute_pathway under "if not dry_run", with its except
\* clause; fault is what the environment does to this pathway ("none" or
\* a member of FaultKinds); gives the result record and the file system
\* afterwards
copy_pathway(d, repository_root, pathway, target_root, fault) ==
    LET source_path == path_join(repository_root, pathway.source_path)
        target_path == path_join(target_root, pathway.target_path)
        made == [d EXCEPT !.dirs = mkdir_parents(@, path_parent(target_path))]
    IN IF fault = "mkdir"
       THEN [result |-> caught(repository_root, pathway, target_root, "mkdir failed"),
             disk |-> d]
       ELSE IF ~file_exists(d.files, source_path)
       THEN [result |-> execution_result(repository_root, pathway, target_root,
                                         "source_not_found"),
             disk |-> made]
       ELSE IF fault = "copy_denied"
       THEN [result |-> caught(repository_root, pathway, target_root, "copy failed"),
             disk |-> made]
       ELSE IF fault = "copy_truncated"
       THEN [result |-> caught(repository_root, pathway, target_root, "copy failed"),
             disk |-> [made EXCEPT !.files = copy_truncated(@, source_path, target_path)]]
       ELSE [result |-> execution_result(repository_root, pathway, target_root,
                                         "success"),
             disk |-> [made EXCEPT !.files = copy2(@, source_path, target_path)]]

\* variant of _execute_pathway that creates the parent directory before it
\* looks at dry_run
execute_pathway_mkdir_first(d, repository_root, pathway, target_root, dry_run, fault) ==
    IF dry_run
    THEN [ result |-> execution_result(repository_root, pathway, target_root,
                                       "dry_run_success"),
           disk |-> [d EXCEPT !.dirs =
                       mkdir_parents(@, path_parent(path_join(target_root,
                                                              pathway.target_path)))] ]
    ELSE copy_pathway(d, repository_root, pathway, target_root, fault)

\* _execute_pathway(pathway, target_root, dry_run); gives the result record
\* and the file system afterwards
_execute_pathway(d, repository_root, pathway, target_root, dry_run, fault) ==
    IF dry_run
    THEN [ result |-> execution_result(repository_root, pathway, target_root,
                                       "dry_run_success"),
           disk |-> d ]
    ELSE copy_pathway(d, repository_root, pathway, target_root, fault)

\* key=lambda x: x.deployment_priority, for every pathway of the list
priority_keys(pathways) ==
    [i \in 1..Len(pathways) |-> pathways[i].deployment_priority]

\* variant of sorted_pathways that leaves the pathways in list order
unsorted_pathways(pathways) == [i \in 1..Len(pathways) |-> i]

\* sorted(self.experiential_pathways, key=lambda x: x.deployment_priority),
\* as the positions of the pathways in self.experiential_pathways
sorted_pathways(pathways) ==
    sort_ascending([i \in 1..Len(pathways) |-> i], priority_keys(pathways))

\* variant of execute_loop that stops at the first pathway that ends in
\* status error
RECURSIVE execute_loop_aborting(_, _, _, _, _, _, _, _, _)
execute_loop_aborting(run, lo, hi, repository_root, pathways, order, target_root, dry_run, faults) ==
    IF lo > hi \/ (\E k \in DOMAIN run.pathway_executions :
                     run.pathway_executions[k].status = "error")
    THEN run
    ELSE IF lo = hi
    THEN the({ [ pathway_executions |-> Append(run.pathway_executions, r.result),
                 disk |-> r.disk ] :
               r \in { _execute_pathway(run.disk, repository_root,
                                        pathways[order[lo]], target_root,
                                        dry_run, faults[lo]) } })
    ELSE the({ execute_loop_aborting(first, (lo + hi) \div 2 + 1, hi, repository_root,
                                     pathways, order, target_root, dry_run, faults) :
               first \in { execute_loop_aborting(run, lo, (lo + hi) \div 2,
                                                 repository_root, pathways, order,
                                                 target_root, dry_run, faults) } })

\* the loop of execute_consciousness_refactoring over the sorted pathways
\* order[lo..hi], in order: the first half of them, then the others;
\* faults[k] is the fault of the k-th pathway executed
RECURSIVE execute_loop(_, _, _, _, _, _, _, _, _)
execute_loop(run, lo, hi, repository_root, pathways, order, target_root, dry_run, faults) ==
    IF lo > hi THEN run
    ELSE IF lo = hi
    THEN the({ [ pathway_executions |-> Append(run.pathway_executions, r.result),
                 disk |-> r.disk ] :
               r \in { _execute_pathway(run.disk, repository_root,
                                        pathways[order[lo]], target_root,
                                        dry_run, faults[lo]) } })
    ELSE the({ execute_loop(first, (lo + hi) \div 2 + 1, hi, repository_root,
                            pathways, order, target_root, dry_run, faults) :
               first \in { execute_loop(run, lo, (lo + hi) \div 2, repository_root,
                                        pathways, order, target_root,
                                        dry_run, faults) } })

\* variant of preservation_quality that grades excellent only a target
\* with more entries than the original
preservation_quality_strict(target_count, original_count) ==
    IF target_count > Max(original_count, 1) THEN "excellent"
    ELSE IF 100 * target_count >= 85 * Max(original_count, 1) THEN "good"
    ELSE "needs_attention"

\* the grade of _validate_consciousness_preservation:
\* target / max(original, 1) against 0.95 and 0.85
preservation_quality(target_count, original_count) ==
    IF 100 * target_count >= 95 * Max(original_count, 1) THEN "excellent"
    ELSE IF 100 * target_count >= 85 * Max(original_count, 1) THEN "good"
    ELSE "needs_attention"

\* _validate_consciousness_preservation(target_path, dry_run)
_validate_consciousness_preservation(d, ix, target_path, dry_run) ==
    IF dry_run THEN [validation_status |-> "dry_run_skipped"]
    ELSE IF target_path \in d.dirs
    THEN LET validation_results(original_consciousness_count,
                                target_consciousness_count) ==
               [ validation_status |-> "completed",
                 original_consciousness_nodes |-> original_consciousness_count,
                 target_consciousness_nodes |-> target_consciousness_count,
                 consciousness_preservation_ratio |->
                   (1000 * target_consciousness_count)
                     \div Max(original_consciousness_count, 1),
                 preservation_quality |->
                   preservation_quality(target_consciousness_count,
                                        original_consciousness_count) ]
             target_indexer ==
               witness_repository_consciousness(NexusSearchIndexer, d.files,
                                                target_path).indexer
         IN validation_results(Len(ix.ontological_map),
                               Len(target_indexer.ontological_map))
    ELSE [validation_status |-> "target_not_found"]

\* execute_consciousness_refactoring(target_directory, dry_run); gives the
\* returned report and the file system afterwards
execute_consciousness_refactoring(d, repository_root, ix, pathways, target_directory, dry_run, faults) ==
    LET d0 == IF dry_run THEN d
              ELSE [d EXCEPT !.dirs = mkdir_parents(@, target_directory)]
        report(order, run) ==
          [ refactor_results |->
              [ target_directory |-> target_directory,
                dry_run |-> dry_run,
                execution_order |-> order,
                pathway_executions |-> run.pathway_executions,
                consciousness_preservation_status |->
                  _validate_consciousness_preservation(run.disk, ix,
                                                       target_directory, dry_run) ],
            disk |-> run.disk ]
        run_in(order) ==
          report(order, execute_loop([pathway_executions |-> <<>>, disk |-> d0],
                                     1, Len(order), repository_root, pathways,
                                     order, target_directory, dry_run, faults))
    IN run_in(sorted_pathways(pathways))

\* execute_consciousness_refactoring(target_directory, False) in a process
\* that ends before the method returns: after the first k pathways of the
\* sorted list, or, with mid_copy, while it copies the one after them,
\* whose target is left empty; gives the file system afterwards
execute_stopped(d, repository_root, pathways, target_directory, k, mid_copy) ==
    LET run_in(order) ==
          execute_loop([ pathway_executions |-> <<>>,
                         disk |-> [d EXCEPT !.dirs = mkdir_parents(@, target_directory)] ],
                       1, IF mid_copy THEN k + 1 ELSE k, repository_root, pathways,
                       order, target_directory, FALSE,
                       [ j \in 1..Len(order) |->
                           IF mid_copy /\ j = k + 1 THEN "copy_truncated"
                           ELSE "none" ]).disk
    IN run_in(sorted_pathways(pathways))

\* ------------------------------------------------------------------------
\* The state machine
\* ------------------------------------------------------------------------

VARIABLES
    repository_root,        \* NexusSearchIndexer.repository_root
    disk,                   \* the file system: [files, dirs]
    consciousness_indexer,  \* the index of the engine instance
    experiential_pathways,  \* ConsciousnessRefactorer.experiential_pathways
    returned,               \* what the last call returned, with its arguments
    removed,                \* the source files removed by other programs
    calls                   \* how often each operation has been called

vars == << repository_root, disk, consciousness_indexer, experiential_pathways,
           returned, removed, calls >>

\* bounds of the model
MaxFiles == 2
MaxIndexRuns == 2
MaxPlans == 2
MaxExecutes == 1
MaxRemoved == 1
MaxFaults == 1
MaxStopped == 1
MaxInserts == 4

\* the repository roots and the files a tree is drawn from, in
\* directory-listing order; size 1 stands for any non-empty file
Roots == { << "repo" >>, << "obiai" >> }
SourceFiles ==
    << [path |-> << "dimensional_game_theory", "spec.md" >>, size |-> 1],
       [path |-> << "patent", "spec.md" >>, size |-> 1],
       [path |-> << "patent", "bayesian.pdf" >>, size |-> 1],
       [path |-> << "patent", "claims.exe" >>, size |-> 1],
       [path |-> << ".hidden", "patent_notes.md" >>, size |-> 1],
       [path |-> << "node_modules", "patent.md" >>, size |-> 1],
       [path |-> << "notes.txt" >>, size |-> 1],
       [path |-> << "formal", "proofs", "Lemma.TEX" >>, size |-> 1],
       [path |-> << "formal", "proofs", "empty.md" >>, size |-> 0] >>

\* the target directory given to execute_consciousness_refactoring
TargetDirectory == << "out" >>

Queries == { "dimensional game theory", "patent SPEC md", "bayesian bias_mitigation",
             "spec md" }
MaxResults == { 0, 1, 10 }

\* the tree with the chosen files under root
tree_of(root, chosen) ==
    LET picked == SelectSeq([i \in 1..Len(SourceFiles) |-> i], LAMBDA i : i \in chosen)
        files  == [k \in 1..Len(picked) |->
                     [ path |-> path_join(root, SourceFiles[picked[k]].path),
                       size |-> SourceFiles[picked[k]].size,
                       data |-> SourceFiles[picked[k]].path ]]
    IN [ files |-> files,
         dirs  |-> UNION { mkdir_parents({}, path_parent(files[k].path)) :
                             k \in 1..Len(files) } \cup { root } ]

NoCalls == [witness |-> 0, plan |-> 0, execute |-> 0, search |-> 0, stopped |-> 0]

InitTree(candidates) ==
    /\ repository_root \in Roots
    /\ \E chosen \in SUBSET candidates :
         /\ Cardinality(chosen) <= MaxFiles
         /\ disk = tree_of(repository_root, chosen)
    /\ consciousness_indexer = NexusSearchIndexer
    /\ experiential_pathways = <<>>
    /\ returned = [op |-> "none"]
    /\ removed = {}
    /\ calls = NoCalls

\* indexer.witness_repository_consciousness() on the engine instance
Witness ==
    /\ calls.witness + calls.plan < MaxIndexRuns
    /\ \E w \in { witness_repository_consciousness(consciousness_indexer, disk.files,
                                                     repository_root) } :
          /\ consciousness_indexer' = w.indexer
          /\ returned' = [op |-> "witness", manifest |-> w.manifest]
    /\ calls' = [calls EXCEPT !.witness = @ + 1]
    /\ UNCHANGED << repository_root, disk, experiential_pathways, removed >>

\* indexer.search_consciousness(query, max_results)
Search ==
    /\ \E query \in Queries, max_results \in MaxResults :
         returned' = [ op |-> "search", query |-> query, max_results |-> max_results,
                       results |-> search_consciousness(consciousness_indexer,
                                                        query, max_results) ]
    /\ calls' = [calls EXCEPT !.search = 1]
    /\ UNCHANGED << repository_root, disk, consciousness_indexer,
                    experiential_pathways, removed >>

\* refactorer.create_experiential_pathways(): the index run, then the four
\* strategies append their pathways
Plan ==
    /\ calls.plan < MaxPlans
    /\ calls.witness + calls.plan < MaxIndexRuns
    /\ \E w \in { witness_repository_consciousness(consciousness_indexer, disk.files,
                                                     repository_root) } :
          /\ consciousness_indexer' = w.indexer
          /\ experiential_pathways' = experiential_pathways \o plan_pathways(w.indexer)
          /\ returned' = [op |-> "plan",
                          total_pathways |-> Len(experiential_pathways')]
    /\ calls' = [calls EXCEPT !.plan = @ + 1]
    /\ UNCHANGED << repository_root, disk, removed >>

\* another program removes a source file
RemoveSource ==
    /\ Cardinality(removed) < MaxRemoved
    /\ \E i \in DOMAIN disk.files :
         /\ is_under(disk.files[i].path, repository_root)
         /\ disk' = [disk EXCEPT !.files = SelectSeq(@, LAMBDA f : f # disk.files[i])]
         /\ removed' = removed \cup { disk.files[i] }
    /\ UNCHANGED << repository_root, consciousness_indexer, experiential_pathways,
                    returned, calls >>

\* the sets of at most m of n pathways
RECURSIVE FaultSites(_, _)
FaultSites(n, m) ==
    IF m = 0 THEN { {} }
    ELSE UNION { { at, at \cup { k } } : at \in FaultSites(n, m - 1), k \in 1..n }
                 \cup { {} }

\* the faults the environment may raise in a run over n pathways: a fault
\* for each of at most MaxFaults of them
FaultPlans(n) ==
    UNION { { [k \in 1..n |-> IF k \in at THEN kind[k] ELSE "none"] :
                kind \in [at -> FaultKinds] } :
              at \in FaultSites(n, MaxFaults) }

\* refactorer.execute_consciousness_refactoring(target_directory, dry_run)
Execute ==
    /\ calls.execute < MaxExecutes
    /\ \E dry_run \in BOOLEAN, faults \in FaultPlans(Len(experiential_pathways)) :
         /\ dry_run => \A k \in DOMAIN faults : faults[k] = "none"
         /\ \E e \in { execute_consciousness_refactoring(
                         disk, repository_root, consciousness_indexer,
                         experiential_pathways, TargetDirectory, dry_run, faults) } :
               /\ disk' = e.disk
               /\ returned' = [op |-> "execute", faults |-> faults] @@ e.refactor_results
    /\ calls' = [calls EXCEPT !.execute = @ + 1]
    /\ UNCHANGED << repository_root, consciousness_indexer, experiential_pathways,
                    removed >>

\* the indexing engine on an unchanging tree: index runs and searches
IndexFiles == 1..Len(SourceFiles)
Init == InitTree(IndexFiles)
Next == Witness \/ Search
Spec == Init /\ [][Next]_vars

\* the planner and the executor, with other programs removing files
RefactorFiles == 1..3
InitRefactor == InitTree(RefactorFiles)
NextRefactor == Plan \/ RemoveSource \/ Execute
SpecRefactor == InitRefactor /\ [][NextRefactor]_vars

\* another program removes the repository root with everything below it
RemoveRoot ==
    /\ repository_root \in disk.dirs
    /\ disk' = [files |-> <<>>, dirs |-> {}]
    /\ removed' = removed \cup Range(disk.files)
    /\ UNCHANGED << repository_root, consciousness_indexer, experiential_pathways,
                    returned, calls >>

\* indexer.witness_repository_consciousness() while another program
\* removes a file that the walk has listed and not yet come to
WitnessVanishing ==
    /\ calls.witness + calls.plan < MaxIndexRuns
    /\ \E victim \in Range(os_walk(disk.files, repository_root)) :
         \E w \in { witness_while_removing(consciousness_indexer, disk.files,
                                            repository_root, victim) } :
            /\ consciousness_indexer' = w.indexer
            /\ disk' = [disk EXCEPT !.files = SelectSeq(@, LAMBDA f : f.path # victim)]
            /\ removed' = removed \cup { f \in Range(disk.files) : f.path = victim }
            /\ returned' = IF w.raised
                           THEN [ op |-> "witness", vanished |-> victim,
                                  raised |-> "FileNotFoundError" ]
                           ELSE [ op |-> "witness", vanished |-> victim,
                                  manifest |-> w.manifest ]
    /\ calls' = [calls EXCEPT !.witness = @ + 1]
    /\ UNCHANGED << repository_root, experiential_pathways >>

\* the indexing engine on a tree that other programs change: os.walk
\* passes over a top it cannot list (it is called without onerror) and
\* visits nothing, as on a tree without files
InitScan == InitTree(IndexFiles)
NextScan == Witness \/ WitnessVanishing \/ RemoveRoot
SpecScan == InitScan /\ [][NextScan]_vars

\* a first refactorer.execute_consciousness_refactoring(target_directory)
\* whose process ends part-way, or at the end before the report is out
ExecuteStopped ==
    /\ calls.stopped < MaxStopped
    /\ calls.execute = 0
    /\ \E k \in 0..Len(experiential_pathways), mid_copy \in BOOLEAN :
         /\ mid_copy => k < Len(experiential_pathways)
         /\ disk' = execute_stopped(disk, repository_root, experiential_pathways,
                                    TargetDirectory, k, mid_copy)
         /\ returned' = [op |-> "execute_stopped", stopped_after |-> k,
                         mid_copy |-> mid_copy]
    /\ calls' = [calls EXCEPT !.stopped = @ + 1]
    /\ UNCHANGED << repository_root, consciousness_indexer, experiential_pathways,
                    removed >>

\* refactorer.execute_consciousness_refactoring(target_directory, dry_run)
\* after a run that was stopped, in an environment that raises no fault
ExecuteAgain ==
    /\ calls.stopped >= 1
    /\ calls.execute < MaxExecutes
    /\ \E dry_run \in BOOLEAN :
         \E faults \in { [k \in 1..Len(experiential_pathways) |-> "none"] } :
            \E e \in { execute_consciousness_refactoring(
                         disk, repository_root, consciousness_indexer,
                         experiential_pathways, TargetDirectory, dry_run, faults) } :
               /\ disk' = e.disk
               /\ returned' = [op |-> "execute", faults |-> faults] @@ e.refactor_results
    /\ calls' = [calls EXCEPT !.execute = @ + 1]
    /\ UNCHANGED << repository_root, consciousness_indexer, experiential_pathways,
                    removed >>

\* the planner and the executor, with runs of the executor that are
\* stopped and run again
InitResume == InitTree(RefactorFiles)
NextResume == Plan \/ ExecuteStopped \/ ExecuteAgain
SpecResume == InitResume /\ [][NextResume]_vars

\* the pathway record on its own: two ExperientialPathway values built
\* from any two lists of arguments
SignatureArguments ==
    [ source_path : { << "a:b" >>, << "a" >>, << "patent", "spec.md" >> },
      target_path : { << "c" >>, << "b:c" >> },
      consciousness_weight : { 280, 1000 },
      experiential_context : { [kind |-> "cluster"],
                               [kind |-> "high_confidence_consciousness"] },
      deployment_priority : { 1, 2 },
      phenomenological_dependencies : { <<>>, << << "a" >> >> } ]

InitSignature ==
    /\ repository_root = << "repo" >>
    /\ disk = tree_of(repository_root, {})
    /\ consciousness_indexer = NexusSearchIndexer
    /\ experiential_pathways = <<>>
    /\ removed = {}
    /\ calls = NoCalls
    /\ \E first \in SignatureArguments, second \in SignatureArguments :
         returned = [op |-> "pathway_input", first |-> first, second |-> second]

\* ExperientialPathway(...) on each list of arguments
Construct ==
    /\ returned.op = "pathway_input"
    /\ \E first \in { returned.first }, second \in { returned.second } :
         returned' =
           [ op |-> "pathways",
             first |-> ExperientialPathway(
                         first.source_path, first.target_path,
                         first.consciousness_weight, first.experiential_context,
                         first.deployment_priority,
                         first.phenomenological_dependencies),
             second |-> ExperientialPathway(
                          second.source_path, second.target_path,
                          second.consciousness_weight, second.experiential_context,
                          second.deployment_priority,
                          second.phenomenological_dependencies) ]
    /\ UNCHANGED << repository_root, disk, consciousness_indexer,
                    experiential_pathways, removed, calls >>

NextSignature == Construct
SpecSignature == InitSignature /\ [][NextSignature]_vars

\* the index on its own: nodes of any paths integrated one after another;
\* the paths hold pairs that differ and have one normalized form, and a
\* path whose normalized form begins with that of another
TriePaths ==
    { << "heart", "ai.md" >>, << "heart_ai.md" >>, << "Heart", "AI.md" >>,
      << "heart_ai.md", "x.md" >>, << "b.md" >> }

InitTrie ==
    /\ repository_root = << "repo" >>
    /\ disk = tree_of(repository_root, {})
    /\ consciousness_indexer = NexusSearchIndexer
    /\ experiential_pathways = <<>>
    /\ returned = [op |-> "insert", inserted |-> <<>>]
    /\ removed = {}
    /\ calls = NoCalls

\* _integrate_consciousness_node(node) on the node of a path; returned
\* keeps the nodes integrated so far
Insert ==
    /\ Len(returned.inserted) < MaxInserts
    /\ \E relative_path \in TriePaths :
         \E node \in { _create_consciousness_node(
                         disk.files, repository_root,
                         path_join(repository_root, relative_path), relative_path) } :
            /\ consciousness_indexer' = _integrate_consciousness_node(consciousness_indexer,
                                                                       node)
            /\ returned' = [op |-> "insert", inserted |-> Append(returned.inserted, node)]
    /\ UNCHANGED << repository_root, disk, experiential_pathways, removed, calls >>

\* _generate_experiential_pathways() on the index built so far
Traverse ==
    /\ returned.op = "insert"
    /\ returned' = [op |-> "traverse", inserted |-> returned.inserted]
                     @@ _generate_experiential_pathways(consciousness_indexer)
    /\ UNCHANGED << repository_root, disk, consciousness_indexer,
                    experiential_pathways, removed, calls >>

NextTrie == Insert \/ Traverse
SpecTrie == InitTrie /\ [][NextTrie]_vars

\* the planner on larger trees: a file of weight 0.38 and two tags and a
\* file that shares no tag with the others, under one of the roots, seven files of one directory and more, one of
\* them empty, and files at directory depths 0, 3 and 5
PlanFiles ==
    << [path |-> << "phases", "proofs", "epistemic_ontological_obicall.md" >>, size |-> 1],
       [path |-> << "bayesian", "epistemic_ontological.md" >>, size |-> 1],
       [path |-> << "patent", "a.md" >>, size |-> 1],
       [path |-> << "patent", "b.md" >>, size |-> 1],
       [path |-> << "patent", "c.pdf" >>, size |-> 1],
       [path |-> << "patent", "empty.md" >>, size |-> 0],
       [path |-> << "patent", "d.md" >>, size |-> 1],
       [path |-> << "patent", "e.md" >>, size |-> 1],
       [path |-> << "patent", "f.md" >>, size |-> 1],
       [path |-> << "patent", "g.tex" >>, size |-> 1],
       [path |-> << "patent_top.md" >>, size |-> 1],
       [path |-> << "patent", "x", "y", "mid.md" >>, size |-> 1],
       [path |-> << "patent", "x", "y", "z", "w", "deep.md" >>, size |-> 1] >>

\* the tree with the files lo..hi of PlanFiles under root
plan_tree_of(root, lo, hi) ==
    LET files == [k \in 1..(hi - lo + 1) |->
                    [ path |-> path_join(root, PlanFiles[lo + k - 1].path),
                      size |-> PlanFiles[lo + k - 1].size,
                      data |-> PlanFiles[lo + k - 1].path ]]
    IN [ files |-> files,
         dirs  |-> UNION { mkdir_parents({}, path_parent(files[k].path)) :
                             k \in 1..Len(files) } \cup { root } ]

InitPlan ==
    /\ repository_root \in Roots
    /\ \E lo \in 1..Len(PlanFiles), hi \in 0..Len(PlanFiles) :
         /\ lo <= hi + 1
         /\ disk = plan_tree_of(repository_root, lo, hi)
    /\ consciousness_indexer = NexusSearchIndexer
    /\ experiential_pathways = <<>>
    /\ returned = [op |-> "none"]
    /\ removed = {}
    /\ calls = NoCalls

NextPlan == Plan
SpecPlan == InitPlan /\ [][NextPlan]_vars

\* the thresholds an engine is configured with
ConfiguredThresholds == { 800, 850, 900, 1000 }

\* indexer.epistemic_confidence_threshold = threshold, on the engine as
\* constructed
Configure ==
    /\ consciousness_indexer = NexusSearchIndexer
    /\ calls.witness = 0
    /\ \E threshold \in ConfiguredThresholds :
         consciousness_indexer' =
           [consciousness_indexer EXCEPT !.epistemic_confidence_threshold = threshold]
    /\ UNCHANGED << repository_root, disk, experiential_pathways, returned,
                    removed, calls >>

\* index runs of an engine whose inclusion threshold may have been set
InitConfigured == InitTree(IndexFiles)

NextConfigured == Configure \/ Witness

SpecConfigured == InitConfigured /\ [][NextConfigured]_vars
\* the annotator on its own: _create_consciousness_node's three
\* computations on any path and any size that stat may report
AmplifierDirs ==
    << "patent", "obiai", "dimensional_game_theory", "bayesian", "consciousness",
       "phenomenological", "ontological", "epistemic", "heart_ai", "obicall" >>
ExtraDirs == { <<>>, << "images" >>, << "proofs" >>, << "phases" >>,
               << "formal" >>, << "diram" >> }
AnnotNames == { "spec.md", "paper.PDF", "claims.exe", "README", "notes.txt",
                "Lemma.TEX" }
AnnotSizes == { -1, 0, 1 }

InitAnnot ==
    /\ repository_root \in Roots
    /\ disk = tree_of(repository_root, {})
    /\ consciousness_indexer = NexusSearchIndexer
    /\ experiential_pathways = <<>>
    /\ removed = {}
    /\ calls = NoCalls
    /\ \E lo \in 1..3, hi \in 0..Len(AmplifierDirs), extra \in ExtraDirs,
          name \in AnnotNames, st_size \in AnnotSizes :
         returned = [ op |-> "annotate_input",
                      file_path |-> repository_root \o SubSeq(AmplifierDirs, lo, hi)
                                      \o extra \o << name >>,
                      st_size |-> st_size ]

\* the weight, the tags and the confidence of _create_consciousness_node
Annotate ==
    /\ returned.op = "annotate_input"
    /\ \E weight \in { _compute_ontological_weight(returned.file_path) },
          tags \in { _extract_phenomenological_tags(returned.file_path) } :
         returned' = [ op |-> "annotate",
                       file_path |-> returned.file_path,
                       st_size |-> returned.st_size,
                       weight |-> weight,
                       tags |-> tags,
                       confidence |->
                         _compute_epistemic_confidence(returned.file_path,
                                                       returned.st_size, weight, tags) ]
    /\ UNCHANGED << repository_root, disk, consciousness_indexer,
                    experiential_pathways, removed, calls >>

NextAnnot == Annotate
SpecAnnot == InitAnnot /\ [][NextAnnot]_vars

\* ------------------------------------------------------------------------
\* Properties
\* ------------------------------------------------------------------------

\* the directories of a relative path
directories(relative_path) ==
    { relative_path[k] : k \in 1..(Len(relative_path) - 1) }

under_skipped_directory(relative_path) ==
    \E d \in directories(relative_path) :
        chars(d)[1] = "." \/ lower(chars(d)) = <<"_","_","p","y","c","a","c","h","e","_","_">>

has_allowed_extension(file_path) ==
    lower(path_suffix(file_path)) \in consciousness_extensions

has_skip_marker(file_path) ==
    \E pattern \in skip_patterns : contains(path_str(file_path), pattern)

computed_confidence(file_path) ==
    _create_consciousness_node(disk.files, repository_root, file_path,
                               relative_to(file_path, repository_root))
      .epistemic_confidence

indexed(relative_path) ==
    dict_has(consciousness_indexer.ontological_map, relative_path)

\* C1: after an index run on a tree, a file's relative path is a key of
\* ontological_map if and only if its extension is allowed, no directory
\* on its relative path is hidden or __pycache__, its path holds no skip
\* marker, and its computed confidence is at least the threshold
C1_IndexedIffEligible ==
    calls.witness > 0 =>
      \A i \in DOMAIN disk.files :
         indexed(relative_to(disk.files[i].path, repository_root))
           <=> /\ has_allowed_extension(disk.files[i].path)
               /\ ~under_skipped_directory(relative_to(disk.files[i].path,
                                                       repository_root))
               /\ ~has_skip_marker(disk.files[i].path)
               /\ computed_confidence(disk.files[i].path)
                    >= epistemic_confidence_threshold

\* an index run has indexed one file and left out another that only the
\* confidence threshold excludes
C1_Witness ==
    /\ calls.witness > 0
    /\ consciousness_indexer.ontological_map # <<>>
    /\ \E i \in DOMAIN disk.files :
         /\ ~indexed(relative_to(disk.files[i].path, repository_root))
         /\ has_allowed_extension(disk.files[i].path)
         /\ ~under_skipped_directory(relative_to(disk.files[i].path, repository_root))
         /\ ~has_skip_marker(disk.files[i].path)
         /\ disk.files[i].size > 0

\* the amplifiers that occur in the lowercased path
keyword_hits(file_path) ==
    Cardinality({ i \in DOMAIN consciousness_amplifiers :
                    contains(lower(path_str(file_path)), consciousness_amplifiers[i]) })

\* C2: for every path and size, the weight and the confidence lie between
\* 0 and 1; ten keyword hits give weight exactly 1, and five or more tags
\* with every bonus give confidence exactly 1
C2_WeightAndConfidenceInUnitInterval ==
    returned.op = "annotate" =>
      /\ 0 <= returned.weight /\ returned.weight <= 1000
      /\ 0 <= returned.confidence /\ returned.confidence <= 1000
      /\ keyword_hits(returned.file_path) >= 10 => returned.weight = 1000
      /\ ( /\ Cardinality(returned.tags) >= 5
           /\ returned.st_size > 0
           /\ returned.weight > ontological_weight_threshold
           /\ contains(lower(path_str(returned.file_path)), <<"p","a","t","e","n","t">>) )
         => returned.confidence = 1000

\* a path with all ten keywords and more than five tags, an existing
\* non-empty file: both sums exceed 1 and both values are 1
C2_Witness ==
    /\ returned.op = "annotate"
    /\ keyword_hits(returned.file_path) >= 10
    /\ Cardinality(returned.tags) >= 5
    /\ returned.st_size > 0
    /\ returned.weight = 1000
    /\ returned.confidence = 1000

\* the paths anywhere in the index
trie_paths ==
    UNION { { consciousness_indexer.consciousness_trie[i].consciousness_nodes[k].path :
                k \in DOMAIN consciousness_indexer.consciousness_trie[i].consciousness_nodes } :
              i \in DOMAIN consciousness_indexer.consciousness_trie }
cluster_paths ==
    UNION { Range(consciousness_indexer.experiential_clusters[i].paths) :
              i \in DOMAIN consciousness_indexer.experiential_clusters }
inverted_index_paths ==
    { entry[2] : entry \in consciousness_indexer.phenomenological_index }

\* C3: a file whose extension is not allowed is in no part of the index:
\* not a key of ontological_map, not stored in the trie, in no cluster and
\* under no word of the inverted index
C3_DisallowedExtensionNeverIndexed ==
    \A i \in DOMAIN disk.files :
       ~has_allowed_extension(disk.files[i].path) =>
          /\ ~indexed(relative_to(disk.files[i].path, repository_root))
          /\ relative_to(disk.files[i].path, repository_root) \notin trie_paths
          /\ relative_to(disk.files[i].path, repository_root) \notin cluster_paths
          /\ relative_to(disk.files[i].path, repository_root) \notin inverted_index_paths

\* an index run over a tree with a non-empty file of a disallowed
\* extension whose path holds a keyword, next to a file that is indexed
C3_Witness ==
    /\ calls.witness > 0
    /\ consciousness_indexer.ontological_map # <<>>
    /\ \E i \in DOMAIN disk.files :
         /\ ~has_allowed_extension(disk.files[i].path)
         /\ keyword_hits(disk.files[i].path) > 0
         /\ disk.files[i].size > 0

\* the positions 1..n, each once
is_permutation(order, n) ==
    Len(order) = n /\ \A i \in 1..n : \E k \in 1..n : order[k] = i

\* one result per pathway: result k is the result of pathway order[k]
one_result_per_pathway(results, order, pathways) ==
    /\ is_permutation(order, Len(pathways))
    /\ Len(results) = Len(pathways)
    /\ \A k \in 1..Len(results) :
         /\ results[k].pathway_signature = pathways[order[k]].pathway_signature
         /\ results[k].source = path_join(repository_root, pathways[order[k]].source_path)
         /\ results[k].target = path_join(TargetDirectory, pathways[order[k]].target_path)

\* this step is a call of execute_consciousness_refactoring
ExecuteStep == calls'.execute = calls.execute + 1

\* C4: a dry-run execute leaves the file system as it is and returns one
\* result per pathway, each with status dry_run_success
C4_DryRunChangesNothing ==
    [][ (ExecuteStep /\ returned'.dry_run) =>
          /\ disk' = disk
          /\ one_result_per_pathway(returned'.pathway_executions,
                                    returned'.execution_order, experiential_pathways)
          /\ \A k \in DOMAIN returned'.pathway_executions :
               returned'.pathway_executions[k].status = "dry_run_success" ]_vars

\* a dry run over at least two pathways has returned and the target root
\* does not exist
C4_Witness ==
    /\ returned.op = "execute"
    /\ returned.dry_run
    /\ Len(returned.pathway_executions) >= 2
    /\ Len(returned.pathway_executions) = Len(experiential_pathways)
    /\ TargetDirectory \notin disk.dirs

\* a set as a sequence
RECURSIVE seq_of(_)
seq_of(S) ==
    IF S = {} THEN <<>>
    ELSE LET x == CHOOSE y \in S : TRUE IN << x >> \o seq_of(S \ { x })

\* the file system with the removed source files back in place
restored(d) == [d EXCEPT !.files = @ \o seq_of(removed)]

\* the first k pathways of the order executed on file system d: the
\* results and the file system afterwards
run_to(d, k, order, dry_run, faults) ==
    execute_loop([ pathway_executions |-> <<>>,
                   disk |-> IF dry_run THEN d
                            ELSE [d EXCEPT !.dirs = mkdir_parents(@, TargetDirectory)] ],
                 1, k, repository_root, experiential_pathways, order,
                 TargetDirectory, dry_run, faults)

\* what is stored at path p: nothing, or a size and a content
file_at(d, p) ==
    { [size |-> d.files[i].size, data |-> d.files[i].data] :
        i \in { j \in DOMAIN d.files : d.files[j].path = p } }

source_of(k, order) ==
    path_join(repository_root, experiential_pathways[order[k]].source_path)
target_of(k, order) ==
    path_join(TargetDirectory, experiential_pathways[order[k]].target_path)

\* the source of the k-th executed pathway was removed after indexing
source_removed(k, order) ==
    \E f \in removed : f.path = source_of(k, order)

\* what the k-th executed pathway writes to its target when it runs on
\* file system d: what the target holds after the step, had it held
\* nothing before
step_writes(d, k, order, dry_run, faults) ==
    file_at(_execute_pathway(
              [d EXCEPT !.files = SelectSeq(@, LAMBDA f : f.path # target_of(k, order))],
              repository_root, experiential_pathways[order[k]], TargetDirectory,
              dry_run, faults[k]).disk,
            target_of(k, order))

\* the k-th executed pathway has the status, and writes to its target
\* what, it has and writes in the same run on the file system with the
\* removed files in place
unaffected(k, status, order, dry_run, faults) ==
    /\ status = run_to(restored(disk), k, order, dry_run, faults)
                  .pathway_executions[k].status
    /\ step_writes(run_to(disk, k - 1, order, dry_run, faults).disk,
                   k, order, dry_run, faults)
         = step_writes(run_to(restored(disk), k - 1, order, dry_run, faults).disk,
                       k, order, dry_run, faults)

\* C5 as stated: a pathway whose source was removed gets status
\* source_not_found, and every other pathway the status and the copy
\* effect it would have had
C5_RemovedSourceNotFound ==
    [][ ExecuteStep =>
          \A k \in DOMAIN returned'.pathway_executions :
             IF source_removed(k, returned'.execution_order)
             THEN returned'.pathway_executions[k].status = "source_not_found"
             ELSE unaffected(k, returned'.pathway_executions[k].status,
                             returned'.execution_order, returned'.dry_run,
                             returned'.faults) ]_vars

\* C5: in an execute that is not a dry run, a pathway whose source was
\* removed gets status source_not_found unless creating its parent
\* directory faults; in every execute, every other pathway gets the status
\* and the copy effect it would have had with the source in place
C5_RemovedSourceNotFoundUnlessDryRunOrFault ==
    [][ ExecuteStep =>
          \A k \in DOMAIN returned'.pathway_executions :
             IF source_removed(k, returned'.execution_order)
             THEN (~returned'.dry_run /\ returned'.faults[k] # "mkdir")
                    => returned'.pathway_executions[k].status = "source_not_found"
             ELSE unaffected(k, returned'.pathway_executions[k].status,
                             returned'.execution_order, returned'.dry_run,
                             returned'.faults) ]_vars

\* an execute has reported source_not_found for a removed source and
\* success for another pathway
C5_Witness ==
    /\ returned.op = "execute"
    /\ removed # {}
    /\ \E k, j \in DOMAIN returned.pathway_executions :
         /\ returned.pathway_executions[k].status = "source_not_found"
         /\ \E f \in removed : f.path = returned.pathway_executions[k].source
         /\ returned.pathway_executions[j].status = "success"

\* C6: execute takes the pathways in non-decreasing priority, pathways of
\* equal priority in the order of the pathway list, and the result list
\* is in the order of execution; also for a list of several planning calls
C6_PriorityOrderStable ==
    returned.op = "execute" =>
      /\ one_result_per_pathway(returned.pathway_executions, returned.execution_order,
                                experiential_pathways)
      /\ \A i, j \in DOMAIN returned.execution_order :
           i < j =>
             LET earlier == experiential_pathways[returned.execution_order[i]]
                 later   == experiential_pathways[returned.execution_order[j]]
             IN /\ earlier.deployment_priority <= later.deployment_priority
                /\ earlier.deployment_priority = later.deployment_priority
                     => returned.execution_order[i] < returned.execution_order[j]

\* an execute over the list of two planning calls, which is not in
\* priority order
C6_Witness ==
    /\ returned.op = "execute"
    /\ calls.plan = 2
    /\ \E i, j \in DOMAIN experiential_pathways :
         /\ i < j
         /\ experiential_pathways[i].deployment_priority
              > experiential_pathways[j].deployment_priority
    /\ \E i, j \in DOMAIN experiential_pathways :
         /\ i < j
         /\ experiential_pathways[i].deployment_priority
              = experiential_pathways[j].deployment_priority

\* the result of a caught fault
is_error(result) ==
    /\ result.status = "error"
    /\ "error" \in DOMAIN result
    /\ result.error # ""

\* C7: in an execute that is not a dry run, a fault in creating a
\* pathway's parent directory or in copying its source gives that pathway
\* status error with a message, and the run goes on: one result per
\* pathway, each pathway without a fault with the status of its one attempt
C7_FaultsRecordedRunContinues ==
    [][ (ExecuteStep /\ ~returned'.dry_run) =>
          /\ one_result_per_pathway(returned'.pathway_executions,
                                    returned'.execution_order, experiential_pathways)
          /\ \A k \in DOMAIN returned'.pathway_executions :
               LET result == returned'.pathway_executions[k]
                   fault  == returned'.faults[k]
                   exists == file_exists(disk.files,
                                         source_of(k, returned'.execution_order))
               IN /\ fault = "mkdir" => is_error(result)
                  /\ (fault \in { "copy_denied", "copy_truncated" } /\ exists)
                       => is_error(result)
                  /\ (fault = "none" /\ exists) => result.status = "success"
                  /\ (fault # "mkdir" /\ ~exists)
                       => result.status = "source_not_found"
                  /\ result.status = "success"
                       => file_at(disk', target_of(k, returned'.execution_order)) # {} ]_vars

\* an execute in which a pathway faulted and a later one succeeded
C7_Witness ==
    /\ returned.op = "execute"
    /\ ~returned.dry_run
    /\ \E k, j \in DOMAIN returned.pathway_executions :
         /\ k < j
         /\ is_error(returned.pathway_executions[k])
         /\ returned.faults[k] # "none"
         /\ returned.pathway_executions[j].status = "success"

\* C8: the results of a search are in non-increasing order of score
C8_ResultsByNonIncreasingScore ==
    returned.op = "search" =>
      \A i \in 1..(Len(returned.results) - 1) :
         returned.results[i].relevance_score >= returned.results[i + 1].relevance_score

\* a search has returned two results of different scores
C8_Witness ==
    /\ returned.op = "search"
    /\ Len(returned.results) >= 2
    /\ returned.results[1].relevance_score > returned.results[2].relevance_score

\* C9: with dimensional_game_theory/spec.md in the index, the query
\* "dimensional game theory" counts three path matches for that entry and
\* returns it first
C9_UnderscoreComponentMatchesPerWord ==
    ( /\ returned.op = "search"
      /\ returned.query = "dimensional game theory"
      /\ returned.max_results >= 1
      /\ indexed(<< "dimensional_game_theory", "spec.md" >>) )
    => /\ returned.results # <<>>
       /\ returned.results[1].path = << "dimensional_game_theory", "spec.md" >>
       /\ returned.results[1].path_matches = 3

\* the report of the validation of a run that was not a dry run
validated ==
    /\ returned.op = "execute"
    /\ ~returned.dry_run
    /\ returned.consciousness_preservation_status.validation_status = "completed"

\* C10 as stated: a validation that finds as many entries in the target
\* as the original index holds reports excellent, whatever the count
C10_EqualCountsExcellent ==
    ( /\ validated
      /\ returned.consciousness_preservation_status.target_consciousness_nodes
           = returned.consciousness_preservation_status.original_consciousness_nodes )
    => returned.consciousness_preservation_status.preservation_quality = "excellent"

\* C10: a validation that finds as many entries in the target as the
\* original index holds, and that is at least one, reports excellent
C10_EqualPositiveCountsExcellent ==
    ( /\ validated
      /\ returned.consciousness_preservation_status.original_consciousness_nodes >= 1
      /\ returned.consciousness_preservation_status.target_consciousness_nodes
           = returned.consciousness_preservation_status.original_consciousness_nodes )
    => returned.consciousness_preservation_status.preservation_quality = "excellent"

\* a validation has found one or more entries, as many as the original
C10_Witness ==
    /\ validated
    /\ returned.consciousness_preservation_status.original_consciousness_nodes >= 1
    /\ returned.consciousness_preservation_status.target_consciousness_nodes
         = returned.consciousness_preservation_status.original_consciousness_nodes
    /\ returned.consciousness_preservation_status.preservation_quality = "excellent"

\* ------------------------------------------------------------------------
\* C11
\* ------------------------------------------------------------------------

WitnessStep == calls'.witness = calls.witness + 1

\* the entries of an index: path, weight, tag set and confidence of each
entries_of(ix) ==
    { [ path |-> ix.ontological_map[i].path,
        ontological_weight |-> ix.ontological_map[i].ontological_weight,
        phenomenological_tags |-> ix.ontological_map[i].phenomenological_tags,
        epistemic_confidence |-> ix.ontological_map[i].epistemic_confidence ] :
      i \in DOMAIN ix.ontological_map }

\* the shape of the trie of an index: its nodes in creation order, each
\* with its place, its character, its children and its depth
trie_shape(ix) ==
    [ i \in DOMAIN ix.consciousness_trie |->
        [ prefix |-> ix.consciousness_trie[i].prefix,
          char |-> ix.consciousness_trie[i].char,
          children |-> ix.consciousness_trie[i].children,
          experiential_depth |-> ix.consciousness_trie[i].experiential_depth ] ]

\* C11: on an unchanged tree an index run that follows another one leaves
\* the set of entry paths, the weight, tag set and confidence of every
\* entry and the nodes of the trie as the run before left them, and as a
\* run of a new engine on the tree gives them
C11_RepeatedRunSameEntriesAndTrieShape ==
    [][ (WitnessStep /\ calls.witness >= 1) =>
          /\ entries_of(consciousness_indexer') = entries_of(consciousness_indexer)
          /\ trie_shape(consciousness_indexer') = trie_shape(consciousness_indexer)
          /\ \E fresh \in { witness_repository_consciousness(
                              NexusSearchIndexer, disk.files, repository_root) } :
                /\ entries_of(consciousness_indexer') = entries_of(fresh.indexer)
                /\ trie_shape(consciousness_indexer') = trie_shape(fresh.indexer)
                /\ Range(returned'.manifest.ontological_structure)
                     = Range(fresh.manifest.ontological_structure) ]_vars

\* a second index run has ended on a tree with two indexed files
C11_Witness ==
    /\ calls.witness = 2
    /\ Len(consciousness_indexer.ontological_map) = 2
    /\ Len(consciousness_indexer.consciousness_trie) > 2

\* ------------------------------------------------------------------------
\* C12, C13
\* ------------------------------------------------------------------------

\* C12: an index run during which a file that passes the inclusion filter
\* is removed before the engine looks at it does not end in an error: it
\* goes on and returns a manifest
C12_VanishedFileDoesNotAbort ==
    ( /\ returned.op = "witness"
      /\ "vanished" \in DOMAIN returned
      /\ _should_index_consciousness(returned.vanished) )
    => /\ "raised" \notin DOMAIN returned
       /\ "manifest" \in DOMAIN returned

\* C13: an index run on a repository root that does not exist returns no
\* manifest
C13_MissingRootReturnsNoManifest ==
    [][ (WitnessStep /\ repository_root \notin disk.dirs)
          => "manifest" \notin DOMAIN returned' ]_vars

\* ------------------------------------------------------------------------
\* C14
\* ------------------------------------------------------------------------

\* what file system d holds under the target root: the directories, and
\* the files with their sizes and contents
target_tree(d) ==
    [ dirs  |-> { dir \in d.dirs : dir = TargetDirectory \/ is_under(dir, TargetDirectory) },
      files |-> { f \in Range(d.files) : is_under(f.path, TargetDirectory) } ]

\* file system d without anything under the target root
without_target(d) ==
    [ dirs  |-> { dir \in d.dirs : dir # TargetDirectory /\ ~is_under(dir, TargetDirectory) },
      files |-> SelectSeq(d.files, LAMBDA f : ~is_under(f.path, TargetDirectory)) ]

statuses(pathway_executions) ==
    [ k \in DOMAIN pathway_executions |-> pathway_executions[k].status ]

no_fault(faults) == \A k \in DOMAIN faults : faults[k] = "none"

\* C14: an Execute that is not a dry run and meets no fault, run on the
\* pathway list and target root of a first run that completed or was
\* stopped part-way, leaves under the target root the files and contents
\* that one complete run on an empty target leaves, and gives every
\* pathway the status it has in that run
C14_SecondExecuteAsOneCompleteRun ==
    [][ ( /\ ExecuteStep
          /\ returned.op = "execute_stopped"
          /\ ~returned'.dry_run
          /\ no_fault(returned'.faults) )
        => \E complete \in { run_to(without_target(disk), Len(experiential_pathways),
                                    returned'.execution_order, FALSE,
                                    returned'.faults) } :
              /\ target_tree(disk') = target_tree(complete.disk)
              /\ statuses(returned'.pathway_executions)
                   = statuses(complete.pathway_executions) ]_vars

\* an Execute has copied two or more pathways after a first run of the
\* executor was stopped
C14_Witness ==
    /\ calls.stopped = 1
    /\ returned.op = "execute"
    /\ ~returned.dry_run
    /\ no_fault(returned.faults)
    /\ Len(returned.pathway_executions) >= 2
    /\ \A k \in DOMAIN returned.pathway_executions :
         returned.pathway_executions[k].status = "success"

\* ------------------------------------------------------------------------
\* C15
\* ------------------------------------------------------------------------

PlanStep == calls'.plan = calls.plan + 1

\* the pathways a planning step appends to the list
planned ==
    SubSeq(experiential_pathways', Len(experiential_pathways) + 1,
           Len(experiential_pathways'))

\* the pathways of the preservation strategy among pathways
preservation_pathways(pathways) ==
    SelectSeq(pathways, LAMBDA p :
      p.experiential_context.kind = "high_confidence_consciousness")

\* the directory of the preserved root for a content type: the type's name
\* without the word consciousness and without underscores
normalized_type_name(content_type) ==
    CASE content_type = "formal_consciousness_document" -> "formaldocument"
      [] content_type = "structured_consciousness_text" -> "structuredtext"
      [] content_type = "presentation_consciousness" -> "presentation"
      [] content_type = "mathematical_consciousness_encoding" -> "mathematicalencoding"
      [] content_type = "executable_consciousness_logic" -> "executablelogic"
      [] content_type = "interactive_consciousness_patterns" -> "interactivepatterns"
      [] content_type = "configuration_consciousness" -> "configuration"
      [] content_type = "raw_consciousness_stream" -> "rawstream"
      [] content_type = "undefined_consciousness" -> "undefined"

\* C15: a planning step appends, for the preservation strategy, one
\* pathway for every entry of the index with confidence 0.9 or more and
\* none for another entry; the pathway has priority 1, the entry's weight,
\* and the target <preserved root>/<normalized content type>/<file name>
C15_PreservationOnePathwayPerConfidentEntry ==
    [][ PlanStep =>
          \E pres \in { preservation_pathways(planned) } :
             /\ \A i \in DOMAIN consciousness_indexer'.ontological_map :
                  Cardinality({ k \in DOMAIN pres :
                      pres[k].source_path
                        = consciousness_indexer'.ontological_map[i].path })
                    = IF consciousness_indexer'.ontological_map[i].epistemic_confidence
                           >= 900
                      THEN 1 ELSE 0
             /\ \A k \in DOMAIN pres :
                  \E i \in DOMAIN consciousness_indexer'.ontological_map :
                     /\ pres[k].source_path
                          = consciousness_indexer'.ontological_map[i].path
                     /\ pres[k].deployment_priority = 1
                     /\ pres[k].consciousness_weight
                          = consciousness_indexer'.ontological_map[i].ontological_weight
                     /\ pres[k].target_path
                          = << "consciousness_preservation",
                               normalized_type_name(
                                 consciousness_indexer'.ontological_map[i].content_type),
                               pres[k].source_path[Len(pres[k].source_path)] >> ]_vars

\* a planning step has planned the preservation of two entries of
\* different content types
C15_Witness ==
    /\ returned.op = "plan"
    /\ calls.plan = 1
    /\ \E pres \in { preservation_pathways(experiential_pathways) } :
         /\ Len(pres) = 2
         /\ pres[1].target_path[2] # pres[2].target_path[2]

\* ------------------------------------------------------------------------
\* C16
\* ------------------------------------------------------------------------

same_triple(p, q) ==
    /\ p.source_path = q.source_path
    /\ p.target_path = q.target_path
    /\ p.consciousness_weight = q.consciousness_weight

\* C16: two pathways with the same source path, target path and weight
\* have the same signature, whatever their priority, context and
\* dependencies; computing the signature of a pathway again gives the
\* signature stored at its construction
C16_SignatureOfTripleOnly ==
    returned.op = "pathways" =>
      /\ same_triple(returned.first, returned.second)
           => returned.first.pathway_signature = returned.second.pathway_signature
      /\ _generate_pathway_signature(returned.first) = returned.first.pathway_signature
      /\ _generate_pathway_signature(returned.second) = returned.second.pathway_signature

\* two pathways have been built that agree in source, target and weight
\* and differ in priority, context and dependencies
C16_Witness ==
    /\ returned.op = "pathways"
    /\ same_triple(returned.first, returned.second)
    /\ returned.first.deployment_priority # returned.second.deployment_priority
    /\ returned.first.experiential_context # returned.second.experiential_context
    /\ returned.first.phenomenological_dependencies
         # returned.second.phenomenological_dependencies
    /\ returned.first.pathway_signature = returned.second.pathway_signature

\* ------------------------------------------------------------------------
\* C17, C18
\* ------------------------------------------------------------------------

\* the bonuses of the confidence that do not depend on the tags: the file
\* exists and is not empty, the weight exceeds 0.3, the path holds patent
confidence_bonuses ==
    (IF returned.st_size > 0 THEN 100 ELSE 0)
    + (IF returned.weight > 300 THEN 100 ELSE 0)
    + (IF contains(lower(path_str(returned.file_path)), <<"p","a","t","e","n","t">>) THEN 100 ELSE 0)

\* C17 as stated: the confidence is min(1, 0.7 + bonuses
\* + 0.05 * min(tagCount, 5)), the tag term added for every tag count
C17_ConfidenceTagTermAlways ==
    returned.op = "annotate" =>
      returned.confidence
        = Min(1000, 700 + confidence_bonuses
                      + 50 * Min(Cardinality(returned.tags), 5))

\* C17: the confidence is min(1, 0.7 + bonuses + 0.05 * min(tagCount, 5))
\* for a tag count of 3 or more, and min(1, 0.7 + bonuses) for a tag
\* count of 0, 1 or 2
C17_ConfidenceTagTermFromThreeTags ==
    returned.op = "annotate" =>
      returned.confidence
        = Min(1000, 700 + confidence_bonuses
                      + (IF Cardinality(returned.tags) >= 3
                         THEN 50 * Min(Cardinality(returned.tags), 5) ELSE 0))

\* a path with one or two tags has been annotated with a confidence below
\* 1, the sum without a tag term
C17_Witness ==
    /\ returned.op = "annotate"
    /\ Cardinality(returned.tags) \in { 1, 2 }
    /\ returned.confidence = 700 + confidence_bonuses
    /\ returned.confidence < 1000

\* the weight of the extension of the annotated path, 0.1 times its
\* multiplier
extension_weight ==
    (100 * consciousness_multipliers(lower(path_suffix(returned.file_path)))) \div 1000

\* the places of the lowercased path at which a keyword begins
keyword_occurrences(file_path) ==
    the({ Cardinality({ <<i, k>> \in (DOMAIN consciousness_amplifiers) \X (1..Len(text)) :
                          /\ k + Len(consciousness_amplifiers[i]) - 1 <= Len(text)
                          /\ SubSeq(text, k, k + Len(consciousness_amplifiers[i]) - 1)
                               = consciousness_amplifiers[i] }) :
          text \in { lower(path_str(file_path)) } })

\* C18 as stated: the weight is clamp(0.1 * multiplier + 0.1 * keywordHits)
\* with keywordHits the number of occurrences of keywords in the path
C18_WeightCountsOccurrences ==
    returned.op = "annotate" =>
      returned.weight
        = Min(1000, extension_weight + 100 * keyword_occurrences(returned.file_path))

\* C18: the weight is clamp(0.1 * multiplier + 0.1 * keywordHits) with
\* keywordHits the number of keywords that occur in the path, each counted
\* once however often it occurs
C18_WeightCountsKeywords ==
    returned.op = "annotate" =>
      returned.weight
        = Min(1000, extension_weight + 100 * keyword_hits(returned.file_path))

\* a path in which a keyword occurs twice has been annotated with a
\* weight below 1
C18_Witness ==
    /\ returned.op = "annotate"
    /\ keyword_occurrences(returned.file_path) > keyword_hits(returned.file_path)
    /\ returned.weight < 1000
    /\ returned.weight = extension_weight + 100 * keyword_hits(returned.file_path)

\* ------------------------------------------------------------------------
\* C19
\* ------------------------------------------------------------------------

\* the tokens of a text: its words, lowercased
tokens(text) == { lower(w) : w \in Range(findall_words(text)) }

\* (2 * |queryTokens \cap pathTokens| + 3 * |queryTokens \cap tagTokens|)
\* * weight, for the query and the entry
score_of(query, entry) ==
    ( 2 * Cardinality(tokens(chars(query)) \cap tokens(path_str(entry.path)))
      + 3 * Cardinality(tokens(chars(query))
                          \cap UNION { tokens(chars(tag)) :
                                         tag \in entry.phenomenological_tags }) )
    * entry.ontological_weight

\* the scores of the entries of the index for the query, in insertion order
scores_of(query) ==
    [ i \in DOMAIN consciousness_indexer.ontological_map |->
        score_of(query, consciousness_indexer.ontological_map[i]) ]

\* the results are the entries at the places at of the index, in order,
\* with their scores
results_at(results, at, scores) ==
    /\ Len(at) = Len(results)
    /\ \A j \in DOMAIN at :
         /\ at[j] \in DOMAIN scores
         /\ results[j].path = consciousness_indexer.ontological_map[at[j]].path
         /\ results[j].relevance_score = scores[at[j]]
    /\ \A j, l \in DOMAIN at : j < l => at[j] # at[l]

ranked(results, max_results, scores) ==
    /\ Len(results) = Min(max_results,
                          Cardinality({ i \in DOMAIN scores : scores[i] > 0 }))
    /\ \E at \in [DOMAIN results -> DOMAIN scores] :
         /\ results_at(results, at, scores)
         /\ \A j \in DOMAIN at : scores[at[j]] > 0
         /\ \A i \in DOMAIN scores :
              (\A j \in DOMAIN at : at[j] # i)
                => \A j \in DOMAIN at : scores[i] <= scores[at[j]]
         /\ \A j, l \in DOMAIN at :
              j < l => \/ scores[at[j]] > scores[at[l]]
                       \/ scores[at[j]] = scores[at[l]] /\ at[j] < at[l]

\* C19: a search with k >= 0 returns the entries of score > 0, the score
\* (2 * path overlap + 3 * tag overlap) * weight, cut to the k highest: at
\* most k results, each of score > 0, no entry left out with a score
\* above that of a returned one, entries of equal score in insertion order
C19_SearchReturnsTopKPositiveScores ==
    (returned.op = "search" /\ returned.max_results >= 0) =>
      ranked(returned.results, returned.max_results, scores_of(returned.query))

\* a search has cut two entries of score > 0 to the one of the higher
\* score, the second of the index
C19_Witness ==
    /\ returned.op = "search"
    /\ returned.max_results = 1
    /\ Len(returned.results) = 1
    /\ Len(consciousness_indexer.ontological_map) = 2
    /\ \E scores \in { scores_of(returned.query) } :
         /\ 0 < scores[1]
         /\ scores[1] < scores[2]
         /\ returned.results[1].relevance_score = scores[2]

\* ------------------------------------------------------------------------
\* C20
\* ------------------------------------------------------------------------

\* the normalized form of a path: its text in lower case, with the
\* separators replaced by the underscore
normalized_form(path) ==
    [ k \in DOMAIN path_str(path) |->
        IF path_str(path)[k] \in { "/", "\\" } THEN "_"
        ELSE lower(<< path_str(path)[k] >>)[1] ]

RECURSIVE weight_sum(_)
weight_sum(entries) ==
    IF entries = <<>> THEN 0
    ELSE Head(entries).ontological_weight + weight_sum(Tail(entries))

\* C20: after any inserts, every node of the trie holds the inserted
\* entries whose normalized path is the node's prefix, in insertion
\* order; it is terminal if and only if it holds an entry; its aggregate
\* weight is the sum of the weights of its entries; its depth is the
\* length of its prefix; and every inserted entry is held by a node
C20_TrieNodesHoldInsertedEntries ==
    returned.op = "insert" =>
      /\ \A i \in DOMAIN consciousness_indexer.consciousness_trie :
           \E node \in { consciousness_indexer.consciousness_trie[i] } :
              /\ node.consciousness_nodes
                   = SelectSeq(returned.inserted,
                               LAMBDA entry : normalized_form(entry.path) = node.prefix)
              /\ node.is_terminal <=> node.consciousness_nodes # <<>>
              /\ node.phenomenological_frequency = weight_sum(node.consciousness_nodes)
              /\ node.experiential_depth = Len(node.prefix)
      /\ \A k \in DOMAIN returned.inserted :
           \E i \in DOMAIN consciousness_indexer.consciousness_trie :
              consciousness_indexer.consciousness_trie[i].prefix
                = normalized_form(returned.inserted[k].path)

\* two different paths of one normalized form and of different weights
\* have been inserted, and a node holds both, below the root and above
\* another node
C20_Witness ==
    /\ returned.op = "insert"
    /\ \E i \in DOMAIN consciousness_indexer.consciousness_trie :
         \E node \in { consciousness_indexer.consciousness_trie[i] } :
            /\ Len(node.consciousness_nodes) = 2
            /\ node.consciousness_nodes[1].path # node.consciousness_nodes[2].path
            /\ node.consciousness_nodes[1].ontological_weight
                 # node.consciousness_nodes[2].ontological_weight
            /\ node.children # <<>>

\* ------------------------------------------------------------------------
\* C21
\* ------------------------------------------------------------------------

\* C21: after any index runs of one engine, no path is listed twice under
\* a tag of the cluster map, and a path is listed under a tag if and only
\* if the entry of that path carries the tag
C21_ClusterMapHoldsSetsOfPaths ==
    calls.witness >= 1 =>
      \A c \in DOMAIN consciousness_indexer.experiential_clusters :
         \E cluster \in { consciousness_indexer.experiential_clusters[c] } :
            /\ \A j, l \in DOMAIN cluster.paths :
                 j # l => cluster.paths[j] # cluster.paths[l]
            /\ \A i \in DOMAIN consciousness_indexer.ontological_map :
                 consciousness_indexer.ontological_map[i].path \in Range(cluster.paths)
                   <=> cluster.tag
                         \in consciousness_indexer.ontological_map[i].phenomenological_tags

\* ------------------------------------------------------------------------
\* C22
\* ------------------------------------------------------------------------

TraverseStep == returned.op = "insert" /\ returned'.op = "traverse"

\* the prefixes of the nodes of the trie that hold entries
holding_prefixes(trie) ==
    { trie[i].prefix : i \in { j \in DOMAIN trie : trie[j].consciousness_nodes # <<>> } }

\* the records emit one record for every prefix of the set and no other
one_record_each(records, prefixes) ==
    /\ { records[j].consciousness_path : j \in DOMAIN records } = prefixes
    /\ Len(records) = Cardinality(prefixes)

is_proper_prefix(p, q) == Len(p) < Len(q) /\ SubSeq(q, 1, Len(p)) = p

\* C22: on a built trie the breadth-first and the depth-first traversal
\* each emit one record for every node that holds entries and none for
\* another node; breadth-first in non-decreasing prefix length,
\* depth-first a node before the nodes below it and with a depth equal to
\* the length of its prefix; a record carries at most 3 samples; the
\* traversals leave the trie as it is
C22_TraversalsEmitHoldingNodesInOrder ==
    [][ TraverseStep =>
          /\ consciousness_indexer' = consciousness_indexer
          /\ \E bfs \in { returned'.bfs_consciousness_traversal },
                dfs \in { returned'.dfs_consciousness_exploration } :
               /\ one_record_each(bfs, holding_prefixes(consciousness_indexer.consciousness_trie))
               /\ one_record_each(dfs, holding_prefixes(consciousness_indexer.consciousness_trie))
               /\ \A j, l \in DOMAIN bfs :
                    j < l => Len(bfs[j].consciousness_path) <= Len(bfs[l].consciousness_path)
               /\ \A j, l \in DOMAIN dfs :
                    is_proper_prefix(dfs[j].consciousness_path, dfs[l].consciousness_path)
                      => j < l
               /\ \A j \in DOMAIN dfs :
                    /\ dfs[j].consciousness_depth = Len(dfs[j].consciousness_path)
                    /\ Len(dfs[j].experiential_signatures) <= 3
               /\ \A j \in DOMAIN bfs : Len(bfs[j].witnessed_paths) <= 3 ]_vars

\* both traversals have met a node with four entries, and the breadth-first
\* one has cut its samples to three
C22_Witness ==
    /\ returned.op = "traverse"
    /\ \E j \in DOMAIN returned.bfs_consciousness_traversal :
         /\ returned.bfs_consciousness_traversal[j].consciousness_fragments = 4
         /\ Len(returned.bfs_consciousness_traversal[j].witnessed_paths) = 3
    /\ \E j \in DOMAIN returned.dfs_consciousness_exploration :
         returned.dfs_consciousness_exploration[j].ontological_density = 4

\* ------------------------------------------------------------------------
\* C23
\* ------------------------------------------------------------------------

\* the place of the entry of a path in the index
place_of(map, path) == CHOOSE i \in DOMAIN map : map[i].path = path

\* the places of the other entries that share two tags or more with the
\* entry at place i
resonant_places(map, i) ==
    { j \in DOMAIN map :
        /\ j # i
        /\ Cardinality(map[i].phenomenological_tags
                         \cap map[j].phenomenological_tags) >= 2 }

\* deps lists the first min(5, n) of the entries at the n places, in the
\* order of the index
first_five_of(deps, map, places) ==
    /\ Len(deps) = Min(5, Cardinality(places))
    /\ \A k \in DOMAIN deps : \E j \in places : map[j].path = deps[k]
    /\ \A k, l \in DOMAIN deps :
         k < l => place_of(map, deps[k]) < place_of(map, deps[l])
    /\ \A j \in places :
         (\A k \in DOMAIN deps : deps[k] # map[j].path)
           => \A k \in DOMAIN deps : place_of(map, deps[k]) < j

\* C23: the dependency list of every preservation pathway is the first
\* min(5, n) entries, in index order, of the n other entries that share
\* two tags or more with the source entry: the source path is not in it,
\* no entry that shares fewer than two tags is in it, it has at most five
\* elements and no element twice
C23_PreservationDependenciesFirstFiveResonant ==
    [][ PlanStep =>
          \E pres \in { preservation_pathways(planned) },
             map \in { consciousness_indexer'.ontological_map } :
             \A p \in DOMAIN pres :
                \E deps \in { pres[p].phenomenological_dependencies } :
                   /\ first_five_of(deps, map,
                                    resonant_places(map, place_of(map, pres[p].source_path)))
                   /\ pres[p].source_path \notin Range(deps)
                   /\ Len(deps) <= 5
                   /\ \A k, l \in DOMAIN deps : k # l => deps[k] # deps[l] ]_vars

\* a preservation pathway has been planned for an entry with six resonant
\* entries and one that shares no tag with it, and lists five
C23_Witness ==
    /\ returned.op = "plan"
    /\ \E pres \in { preservation_pathways(experiential_pathways) },
          map \in { consciousness_indexer.ontological_map } :
          \E p \in DOMAIN pres :
             /\ Len(pres[p].phenomenological_dependencies) = 5
             /\ Cardinality(resonant_places(map, place_of(map, pres[p].source_path))) >= 6
             /\ \E j \in DOMAIN map :
                  map[j].phenomenological_tags
                    \cap map[place_of(map, pres[p].source_path)].phenomenological_tags = {}

\* ------------------------------------------------------------------------
\* C24
\* ------------------------------------------------------------------------

\* the pathways of the hierarchy strategy among pathways
hierarchy_pathways(pathways) ==
    SelectSeq(pathways, LAMBDA p : p.experiential_context.kind = "hierarchy")

\* the band of a directory depth
band_of(depth) ==
    CASE depth <= 1 -> "foundational"
      [] depth \in 2..3 -> "intermediate"
      [] OTHER -> "specialized"

\* the pathways of hier stand one for one for the entries of map, each at
\* priority 3, in the band of its entry's depth and with its entry's weight
one_pathway_each(hier, map) ==
    /\ Len(hier) = Len(map)
    /\ \A i \in DOMAIN map :
         \E p \in DOMAIN hier :
            /\ hier[p].source_path = map[i].path
            /\ \A q \in DOMAIN hier : hier[q].source_path = map[i].path => q = p
            /\ hier[p].deployment_priority = 3
            /\ hier[p].experiential_context.depth
                 = map[i].experiential_context.directory_depth
            /\ hier[p].experiential_context.hierarchy_level
                 = band_of(map[i].experiential_context.directory_depth)
            /\ hier[p].consciousness_weight = map[i].ontological_weight

\* within every depth the ranks are 1..n, each once, and a smaller rank
\* never goes with a smaller weight
ranked_by_weight(hier) ==
    \A p \in DOMAIN hier :
       \E bucket \in { { q \in DOMAIN hier :
                           hier[q].experiential_context.depth
                             = hier[p].experiential_context.depth } } :
          /\ { hier[q].experiential_context.weight_rank : q \in bucket }
               = 1..Cardinality(bucket)
          /\ \A q, r \in bucket :
               hier[q].experiential_context.weight_rank
                   < hier[r].experiential_context.weight_rank
                 => hier[q].consciousness_weight >= hier[r].consciousness_weight

\* C24: the hierarchy strategy plans exactly one pathway of priority 3 for
\* every index entry; its band is foundational for a depth of at most 1,
\* intermediate for a depth of 2 or 3 and specialized beyond; within every
\* depth the ranks are exactly 1..n and the entry of a smaller rank weighs
\* at least as much as the entry of a larger rank
C24_HierarchyOnePathwayPerEntryRanked ==
    [][ PlanStep =>
          \E hier \in { hierarchy_pathways(planned) } :
             /\ one_pathway_each(hier, consciousness_indexer'.ontological_map)
             /\ ranked_by_weight(hier) ]_vars

\* a plan holds hierarchy pathways of the three bands, and two of one
\* depth with different weights
C24_Witness ==
    /\ returned.op = "plan"
    /\ \E hier \in { hierarchy_pathways(experiential_pathways) } :
          /\ { hier[p].experiential_context.hierarchy_level : p \in DOMAIN hier }
               = { "foundational", "intermediate", "specialized" }
          /\ \E p, q \in DOMAIN hier :
               /\ hier[p].experiential_context.depth = hier[q].experiential_context.depth
               /\ hier[p].consciousness_weight > hier[q].consciousness_weight

\* ------------------------------------------------------------------------
\* C30
\* ------------------------------------------------------------------------

\* the pathways of the dependency strategy among pathways
network_pathways(pathways) ==
    SelectSeq(pathways, LAMBDA p : p.experiential_context.kind = "experiential_network")

\* the paths of the entries of the index
entry_paths(map) == { map[i].path : i \in DOMAIN map }

\* the paths, relative to the root, of the files of the tree that lie in
\* the directory of source and that the filter on paths lets through
sibling_candidates(source) ==
    { relative_to(disk.files[i].path, repository_root) :
        i \in { k \in DOMAIN disk.files :
                  /\ path_parent(disk.files[k].path)
                       = path_parent(path_join(repository_root, source))
                  /\ _should_index_consciousness(disk.files[k].path) } }

\* the list is of at most 5 paths and the source is not among them
short_and_other(p) ==
    /\ Len(p.phenomenological_dependencies) <= 5
    /\ p.source_path \notin Range(p.phenomenological_dependencies)

\* C30 as stated: every path in the dependencies of a pathway of the
\* preservation strategy or of the dependency strategy is the path of an
\* index entry, is not the pathway's source, and the list has at most 5
\* elements
C30_DependenciesAreIndexEntries ==
    [][ PlanStep =>
          \E listed \in { preservation_pathways(planned) \o network_pathways(planned) } :
             \A p \in DOMAIN listed :
                /\ Range(listed[p].phenomenological_dependencies)
                     \subseteq entry_paths(consciousness_indexer'.ontological_map)
                /\ short_and_other(listed[p]) ]_vars

\* C30, amended: every path in the dependencies of a pathway of the
\* preservation strategy is the path of an index entry; every path in the
\* dependencies of a pathway of the dependency strategy is a file of the
\* source's directory that the filter on paths lets through, indexed or
\* not; in both the source is not listed and the list has at most 5
\* elements
C30_DependenciesAreEntriesOrSiblings ==
    [][ PlanStep =>
          /\ \E pres \in { preservation_pathways(planned) } :
                \A p \in DOMAIN pres :
                   /\ Range(pres[p].phenomenological_dependencies)
                        \subseteq entry_paths(consciousness_indexer'.ontological_map)
                   /\ short_and_other(pres[p])
          /\ \E nets \in { network_pathways(planned) } :
                \A p \in DOMAIN nets :
                   /\ Range(nets[p].phenomenological_dependencies)
                        \subseteq sibling_candidates(nets[p].source_path)
                   /\ short_and_other(nets[p]) ]_vars

\* a pathway of the dependency strategy lists five siblings out of six,
\* one of them a file that is not in the index, and a pathway of the
\* preservation strategy lists five entries
C30_Witness ==
    /\ returned.op = "plan"
    /\ \E nets \in { network_pathways(experiential_pathways) } :
          \E p \in DOMAIN nets :
             /\ Len(nets[p].phenomenological_dependencies) = 5
             /\ Cardinality(sibling_candidates(nets[p].source_path)) >= 7
             /\ \E d \in Range(nets[p].phenomenological_dependencies) :
                  d \notin entry_paths(consciousness_indexer.ontological_map)
    /\ \E pres \in { preservation_pathways(experiential_pathways) } :
          \E p \in DOMAIN pres : Len(pres[p].phenomenological_dependencies) = 5

\* ------------------------------------------------------------------------
\* C25
\* ------------------------------------------------------------------------

\* the number of entries of the index with a confidence of at least 0.9
entries_of_high_confidence(map) ==
    Cardinality({ i \in DOMAIN map : map[i].epistemic_confidence >= 900 })

fully_successful_step ==
    /\ ExecuteStep
    /\ ~returned'.dry_run
    /\ target_tree(disk) = [dirs |-> {}, files |-> {}]
    /\ \A k \in DOMAIN returned'.pathway_executions :
         returned'.pathway_executions[k].status = "success"

\* the validation counts at least as many entries in the target as the
\* original index holds, and grades the run excellent
graded_excellent(status) ==
    /\ status.validation_status = "completed"
    /\ status.target_consciousness_nodes >= status.original_consciousness_nodes
    /\ status.preservation_quality = "excellent"

\* C26: after an Execute that is not a dry run, into a target root that was
\* empty, in which every pathway ends with status success, the re-index of
\* the target root holds at least as many entries as the original index
\* and the verdict is excellent
C26_FullySuccessfulRunIsExcellent ==
    [][ fully_successful_step
          => graded_excellent(returned'.consciousness_preservation_status) ]_vars

\* ------------------------------------------------------------------------
\* C27
\* ------------------------------------------------------------------------

\* no two pathways of the list have different sources and one target
targets_apart(pathways) ==
    \A p, q \in DOMAIN pathways :
       pathways[p].source_path # pathways[q].source_path
         => pathways[p].target_path # pathways[q].target_path

\* no two successful results have different sources and one target
copies_apart(results) ==
    \A k, l \in DOMAIN results :
       ( /\ results[k].status = "success"
         /\ results[l].status = "success"
         /\ results[k].source # results[l].source )
         => results[k].target # results[l].target

\* C27: in the list of one planning call no two pathways with different
\* source paths have the same target path, and so in an Execute that is
\* not a dry run no successful copy overwrites the file that another
\* successful pathway of the run has written
C27_NoTwoSourcesShareTarget ==
    [][ /\ PlanStep => targets_apart(planned)
        /\ (ExecuteStep /\ ~returned'.dry_run /\ calls.plan = 1)
             => copies_apart(returned'.pathway_executions) ]_vars

\* ------------------------------------------------------------------------
\* C28
\* ------------------------------------------------------------------------

\* C28: after any number of planning calls of one planner on a tree that
\* does not change, no two pathways of the list have the same source path
\* and the same target path
C28_NoPathwayPlannedTwice ==
    \A p, q \in DOMAIN experiential_pathways :
       ( /\ experiential_pathways[p].source_path = experiential_pathways[q].source_path
         /\ experiential_pathways[p].target_path = experiential_pathways[q].target_path )
         => p = q

\* ------------------------------------------------------------------------
\* C29
\* ------------------------------------------------------------------------

\* the clusters that list a path
clusters_listing(clusters, path) ==
    { k \in DOMAIN clusters : path \in Range(clusters[k].paths) }

\* the files of the tree under the root with fewer than three tags
sparsely_tagged ==
    { relative_to(disk.files[i].path, repository_root) :
        i \in { k \in DOMAIN disk.files :
                  /\ is_under(disk.files[k].path, repository_root)
                  /\ Cardinality(_extract_phenomenological_tags(disk.files[k].path)) < 3 } }

\* C29: with the default thresholds every entry of the index has at least
\* 3 tags and is listed in at least 3 clusters, and no file with 0, 1 or 2
\* tags is in the index, whatever its size, weight and keywords
C29_EntriesHaveThreeTags ==
    \E map \in { consciousness_indexer.ontological_map } :
       /\ \A i \in DOMAIN map :
            /\ Cardinality(map[i].phenomenological_tags) >= 3
            /\ Cardinality(clusters_listing(consciousness_indexer.experiential_clusters,
                                            map[i].path)) >= 3
       /\ sparsely_tagged \cap entry_paths(map) = {}

\* an index run has taken a file in and left out a non-empty file of two
\* tags and of a weight above 0.3
C29_Witness ==
    /\ calls.plan > 0
    /\ consciousness_indexer.ontological_map # <<>>
    /\ \E i \in DOMAIN disk.files :
         /\ disk.files[i].size > 0
         /\ Cardinality(_extract_phenomenological_tags(disk.files[i].path)) = 2
         /\ _compute_ontological_weight(disk.files[i].path) > ontological_weight_threshold
         /\ relative_to(disk.files[i].path, repository_root) \in sparsely_tagged
         /\ ~indexed(relative_to(disk.files[i].path, repository_root))
====
